---- MODULE Spec2Model ----
(***************************************************************************)
(* Signal & Streak Analysis Engine of INF1002-GroupB4.                     *)
(*                                                                         *)
(* The functions are modelled each by an operator that follows the loops   *)
(* of the Python source, and each family is driven by a specification      *)
(* whose Init draws the inputs from bounded sets:                          *)
(*   SpecProfit : max_profit_multiple, extract_trades,                     *)
(*                best_time_to_buy_sell                                    *)
(*   SpecStreak : calculate_streaks (skip policy), compute_runs            *)
(*                (hard-break policy), get_runs_analysis, summarize_runs,  *)
(*                plot_runs                                                *)
(*   SpecSignal : get_recommendation (Buy Sell Analysis and yahoofin),     *)
(*                generate_signal, on short tables with every calendar     *)
(*                and every close pattern                                  *)
(*   SpecScore  : the same generators on tables longer than the 30-bar     *)
(*                support/resistance window, each call repeated with       *)
(*                another Volume column or with target currency USD        *)
(*   SpecLookup : get_sma_for_date and get_daily_return_analysis on the    *)
(*                frame they download                                      *)
(*   SpecExchange : the date resolution of the generators on tables        *)
(*                stamped at the midnight of exchanges east and west of    *)
(*                UTC                                                      *)
(*   SpecScan   : extract_trades and best_time_to_buy_sell one loop test   *)
(*                per step, with the indices each test reads               *)
(* Python indices are 0-based; the model keeps them 0-based and reads a    *)
(* sequence through At.  Prices are integers (exact arithmetic).           *)
(***************************************************************************)
EXTENDS Integers, Sequences, FiniteSets, TLC

VARIABLES
    prices,      \* the close-price array handed to the profit / streak code
    ran,         \* names of the functions that have returned on the current input
    profit,      \* result of max_profit_multiple
    trades,      \* result of extract_trades
    tx,          \* result of best_time_to_buy_sell
    streaks,     \* result of calculate_streaks
    runs,        \* result of compute_runs
    prevStreaks, \* calculate_streaks result on the array before a flat day was inserted
    flatAt,      \* position at which the last flat day was inserted, or -1
    data,        \* the price table handed to the signal generators: a sequence of bars
    barOffset,   \* hours after 00:00 UTC at which the bars of data are stamped
    hasVolume,   \* whether data has a Volume column
    target,      \* the requested date: [valid, day]
    params,      \* [sma_window, lookback_days, currency] of the call
    recResult,         \* result of get_recommendation
    sigResult,         \* result of generate_signal
    summary,     \* result of get_runs_analysis
    runSummary,  \* result of summarize_runs
    yfResult,    \* result of get_recommendation of yahoofin.py
    prevResult,  \* result of the call before the input was changed and the call repeated
    edit,        \* what was changed before the repeated call: "none", "volume" or "currency"
    apiReply,    \* what the currency API did during the last get_recommendation call
    frame,       \* the DataFrame a lookup call downloaded, as the call leaves it
    lookupArgs,  \* [target_date, period, snap_to_previous, save_to_csv] of get_sma_for_date
    smaValue,    \* what get_sma_for_date returned: None or a float
    csvFile,     \* contents of csv_filename: None while the file has not been written
    dailyRows,   \* the list returned by get_daily_return_analysis
    scan,        \* the running scan of extract_trades / best_time_to_buy_sell
    bold         \* the longest runs plot_runs highlights: their slices and label positions

profitVars == <<profit, trades, tx>>
streakVars == <<streaks, runs, prevStreaks, flatAt, summary, runSummary, bold>>
signalVars == <<data, barOffset, hasVolume, target, params, recResult, sigResult,
                yfResult, prevResult, edit, apiReply>>
lookupVars == <<frame, lookupArgs, smaValue, csvFile, dailyRows>>

(* ---------------------------------------------------------------------- *)
(* Bounds                                                                 *)
(* ---------------------------------------------------------------------- *)
MaxLen == 5        \* longest close-price array
MaxPrice == 3      \* prices range over 1..MaxPrice
MaxBars == 4       \* longest price table given to the signal generators
MaxGap == 2        \* calendar days between consecutive bars range over 1..MaxGap
MaxWindow == 2     \* sma_window and lookback_days range over 1..MaxWindow
FirstDay == 10     \* calendar day of the first bar
Reach == 9         \* target dates go this many days beyond either end of the table

None == "None"

\* the worked examples of the design document
SpecExamples == {<<1, 2, 3, 2, 2, 5>>, <<7, 1, 5, 3, 6, 4>>, <<5, 4, 3, 2, 1>>}

\* every caller returns early on an empty frame, so an array has at least one bar
PriceArrays == (UNION {[1..n -> 1..MaxPrice] : n \in 1..MaxLen}) \cup SpecExamples

(* ---------------------------------------------------------------------- *)
(* Python helpers                                                         *)
(* ---------------------------------------------------------------------- *)
\* s[i] with a 0-based index
At(s, i) == s[i + 1]

\* builtin sum() over a sequence of integers
RECURSIVE SumSeq(_)
SumSeq(s) == IF s = <<>> THEN 0 ELSE Head(s) + SumSeq(Tail(s))

Max2(a, b) == IF a >= b THEN a ELSE b
Abs(x) == IF x < 0 THEN -x ELSE x

(* ---------------------------------------------------------------------- *)
(* ProfitMaximizer: SMA_and_MaxProfit.py                                  *)
(* ---------------------------------------------------------------------- *)
\* a profit loop that adds every delta, falls included
RECURSIVE ProfitLoopNoGuard(_, _, _)
ProfitLoopNoGuard(p, i, acc) ==
    IF i >= Len(p) THEN acc
    ELSE ProfitLoopNoGuard(p, i + 1, acc + (At(p, i) - At(p, i - 1)))

\* for i in range(1, len(prices)): g = prices[i] - prices[i-1]; if g > 0: profit += g
RECURSIVE ProfitLoop(_, _, _)
ProfitLoop(p, i, acc) ==
    IF i >= Len(p) THEN acc
    ELSE LET g == At(p, i) - At(p, i - 1)
         IN  ProfitLoop(p, i + 1, IF g > 0 THEN acc + g ELSE acc)

max_profit_multiple(p) == ProfitLoop(p, 1, 0)

\* a buy scan that stops at a flat step
RECURSIVE SkipFallsStrict(_, _)
SkipFallsStrict(p, i) ==
    IF i < Len(p) - 1 /\ At(p, i + 1) < At(p, i) THEN SkipFallsStrict(p, i + 1) ELSE i

\* while i < n - 1 and prices[i + 1] <= prices[i]: i += 1
RECURSIVE SkipFalls(_, _)
SkipFalls(p, i) ==
    IF i < Len(p) - 1 /\ At(p, i + 1) <= At(p, i) THEN SkipFalls(p, i + 1) ELSE i

\* a sell scan that stops one bar short of the end of the array
RECURSIVE ClimbRisesShort(_, _)
ClimbRisesShort(p, i) ==
    IF i < Len(p) - 2 /\ At(p, i + 1) >= At(p, i) THEN ClimbRisesShort(p, i + 1) ELSE i

\* while i < n - 1 and prices[i + 1] >= prices[i]: i += 1
RECURSIVE ClimbRises(_, _)
ClimbRises(p, i) ==
    IF i < Len(p) - 1 /\ At(p, i + 1) >= At(p, i) THEN ClimbRises(p, i + 1) ELSE i

\* the outer while loop of extract_trades
RECURSIVE TradesLoop(_, _, _)
TradesLoop(p, i, acc) ==
    IF ~(i < Len(p) - 1) THEN acc
    ELSE LET buy == SkipFalls(p, i)
             sell == ClimbRises(p, buy)
         IN  TradesLoop(p, sell + 1,
                        IF sell > buy THEN Append(acc, <<buy, sell>>) ELSE acc)

extract_trades(p) == TradesLoop(p, 0, <<>>)

(* ---------------------------------------------------------------------- *)
(* ProfitMaximizer: yahoofin.py                                           *)
(* ---------------------------------------------------------------------- *)
\* a sell scan that takes a flat step for a peak
RECURSIVE SellScanEager(_, _)
SellScanEager(p, i) ==
    LET n == Len(p) IN
    IF i < n /\ (i = n - 1 \/ At(p, i) >= At(p, i - 1))
    THEN IF i = n - 1 \/ At(p, i + 1) <= At(p, i)
         THEN [i |-> i, sold |-> TRUE]
         ELSE SellScanEager(p, i + 1)
    ELSE [i |-> i, sold |-> FALSE]

\* inner while of best_time_to_buy_sell; yields the index the scan stops at
\* and whether a sale was recorded there (the break)
RECURSIVE SellScan(_, _)
SellScan(p, i) ==
    LET n == Len(p) IN
    IF i < n /\ (i = n - 1 \/ At(p, i) >= At(p, i - 1))
    THEN IF i = n - 1 \/ At(p, i + 1) < At(p, i)
         THEN [i |-> i, sold |-> TRUE]
         ELSE SellScan(p, i + 1)
    ELSE [i |-> i, sold |-> FALSE]

\* outer while of best_time_to_buy_sell
RECURSIVE BuySellLoop(_, _, _)
BuySellLoop(p, i, acc) ==
    LET n == Len(p) IN
    IF ~(i < n - 1) THEN acc
    ELSE LET buy == SkipFalls(p, i)
         IN  IF buy = n - 1 THEN acc
             ELSE LET r == SellScan(p, buy + 1)
                  IN  BuySellLoop(p, r.i,
                                  IF r.sold THEN Append(acc, <<buy, r.i>>) ELSE acc)

best_time_to_buy_sell(p) == BuySellLoop(p, 0, <<>>)

(* ---------------------------------------------------------------------- *)
(* StreakDetector, skip policy: calculate_streaks                         *)
(* ---------------------------------------------------------------------- *)
\* the tuple appended to details, with df.index positions kept as positions
Detail(p, s, e, len, dir) ==
    [start |-> s, end |-> e, length |-> len, direction |-> dir,
     start_price |-> At(p, s), end_price |-> At(p, e)]

StreakInit ==
    [up |-> <<>>, down |-> <<>>, details |-> <<>>,
     current_streak |-> 0, direction |-> None, start_idx |-> 0]

\* (up if direction == "up" else down).append(current_streak); details.append(...)
Emit(p, s, e) ==
    IF s.direction # None /\ s.current_streak > 0
    THEN [s EXCEPT !.up = IF s.direction = "up" THEN Append(@, s.current_streak) ELSE @,
                   !.down = IF s.direction = "up" THEN @ ELSE Append(@, s.current_streak),
                   !.details = Append(@, Detail(p, s.start_idx, e, s.current_streak, s.direction))]
    ELSE s

\* one iteration of the for loop that treats an equal step as a new direction
StreakBodyFlatBreaks(p, i, s) ==
    LET new_dir == IF At(p, i) > At(p, i - 1) THEN "up"
                   ELSE IF At(p, i) < At(p, i - 1) THEN "down" ELSE "flat"
    IN  IF s.direction # new_dir
        THEN [Emit(p, s, i - 1) EXCEPT !.direction = IF new_dir = "flat" THEN None ELSE new_dir,
                                       !.current_streak = IF new_dir = "flat" THEN 0 ELSE 1,
                                       !.start_idx = i - 1]
        ELSE [s EXCEPT !.current_streak = @ + 1]

\* one iteration that opens a new streak with a count of 0
StreakBodyZeroStart(p, i, s) ==
    IF At(p, i) = At(p, i - 1) THEN s
    ELSE LET new_dir == IF At(p, i) > At(p, i - 1) THEN "up" ELSE "down"
         IN  IF s.direction # new_dir
             THEN [Emit(p, s, i - 1) EXCEPT !.direction = new_dir,
                                            !.current_streak = 0,
                                            !.start_idx = i - 1]
             ELSE [s EXCEPT !.current_streak = @ + 1]

\* one iteration that opens a new streak at bar i instead of bar i - 1
StreakBodyStartAtI(p, i, s) ==
    IF At(p, i) = At(p, i - 1) THEN s
    ELSE LET new_dir == IF At(p, i) > At(p, i - 1) THEN "up" ELSE "down"
         IN  IF s.direction # new_dir
             THEN [Emit(p, s, i - 1) EXCEPT !.direction = new_dir,
                                            !.current_streak = 1,
                                            !.start_idx = i]
             ELSE [s EXCEPT !.current_streak = @ + 1]

\* one iteration of the for loop of calculate_streaks
StreakBody(p, i, s) ==
    IF At(p, i) = At(p, i - 1) THEN s
    ELSE LET new_dir == IF At(p, i) > At(p, i - 1) THEN "up" ELSE "down"
         IN  IF s.direction # new_dir
             THEN [Emit(p, s, i - 1) EXCEPT !.direction = new_dir,
                                            !.current_streak = 1,
                                            !.start_idx = i - 1]
             ELSE [s EXCEPT !.current_streak = @ + 1]

RECURSIVE StreakLoop(_, _, _)
StreakLoop(p, i, s) ==
    IF i >= Len(p) THEN s ELSE StreakLoop(p, i + 1, StreakBody(p, i, s))

\* a detector that returns without the final flush
calculate_streaks_noflush(p) ==
    IF Len(p) < 2 THEN [up |-> <<>>, down |-> <<>>, details |-> <<>>]
    ELSE LET s == StreakLoop(p, 1, StreakInit)
         IN  [up |-> s.up, down |-> s.down, details |-> s.details]

calculate_streaks(p) ==
    IF Len(p) < 2 THEN [up |-> <<>>, down |-> <<>>, details |-> <<>>]
    ELSE LET s == Emit(p, StreakLoop(p, 1, StreakInit), Len(p) - 1)
         IN  [up |-> s.up, down |-> s.down, details |-> s.details]

(* ---------------------------------------------------------------------- *)
(* StreakDetector, hard-break policy: compute_runs                        *)
(* ---------------------------------------------------------------------- *)
RunsInit == [up_runs |-> <<>>, down_runs |-> <<>>, cur_len |-> 0, cur_dir |-> None, start_idx |-> 0]

\* a run recorded from the bar after its first bar
RunStartAfter(s) == [start |-> s.start_idx + 1, length |-> s.cur_len]

\* {"start": start_idx, "length": cur_len}
Run(s) == [start |-> s.start_idx, length |-> s.cur_len]

\* one iteration of the for loop of compute_runs
RunsBody(p, i, s) ==
    IF At(p, i) > At(p, i - 1)
    THEN IF s.cur_dir = "up" THEN [s EXCEPT !.cur_len = @ + 1]
         ELSE [s EXCEPT !.down_runs = IF s.cur_dir = "down" /\ s.cur_len > 0
                                      THEN Append(@, Run(s)) ELSE @,
                        !.cur_dir = "up", !.cur_len = 1, !.start_idx = i - 1]
    ELSE IF At(p, i) < At(p, i - 1)
    THEN IF s.cur_dir = "down" THEN [s EXCEPT !.cur_len = @ + 1]
         ELSE [s EXCEPT !.up_runs = IF s.cur_dir = "up" /\ s.cur_len > 0
                                    THEN Append(@, Run(s)) ELSE @,
                        !.cur_dir = "down", !.cur_len = 1, !.start_idx = i - 1]
    ELSE [s EXCEPT !.up_runs = IF s.cur_dir = "up" /\ s.cur_len > 0
                               THEN Append(@, Run(s)) ELSE @,
                   !.down_runs = IF s.cur_dir = "down" /\ s.cur_len > 0
                                 THEN Append(@, Run(s)) ELSE @,
                   !.cur_dir = None, !.cur_len = 0]

RECURSIVE RunsLoop(_, _, _)
RunsLoop(p, i, s) ==
    IF i >= Len(p) THEN s ELSE RunsLoop(p, i + 1, RunsBody(p, i, s))

compute_runs(p) ==
    LET s == RunsLoop(p, 1, RunsInit)
        f == IF s.cur_len > 0
             THEN [s EXCEPT !.up_runs = IF s.cur_dir = "up" THEN Append(@, Run(s)) ELSE @,
                            !.down_runs = IF s.cur_dir = "up" THEN @ ELSE Append(@, Run(s))]
             ELSE s
    IN  [up_runs |-> f.up_runs, down_runs |-> f.down_runs]

(* ---------------------------------------------------------------------- *)
(* Streak summaries: get_runs_analysis, summarize_runs                    *)
(* ---------------------------------------------------------------------- *)
\* a Python value that may be None: <<>> stands for None, <<v>> for the value v
Absent == <<>>
Some(v) == <<v>>

RECURSIVE MaxOf(_)
MaxOf(s) == IF Len(s) = 1 THEN s[1] ELSE IF Head(s) >= MaxOf(Tail(s)) THEN Head(s) ELSE MaxOf(Tail(s))

\* round(np.mean(xs), 2) in hundredths, halves to the even neighbour
RoundedMean(xs) ==
    LET n == Len(xs)
        q == (100 * SumSeq(xs)) \div n
        r == (100 * SumSeq(xs)) % n
    IN  IF 2 * r > n \/ (2 * r = n /\ q % 2 = 1) THEN q + 1 ELSE q

\* the dict returned by get_runs_analysis for a non-empty frame
get_runs_analysis(p) ==
    LET s == calculate_streaks(p)
    IN  [total_trading_days |-> Len(p),
         upward_streaks |-> Len(s.up),
         downward_streaks |-> Len(s.down),
         longest_up_streak |-> Some(IF s.up # <<>> THEN MaxOf(s.up) ELSE 0),
         longest_down_streak |-> Some(IF s.down # <<>> THEN MaxOf(s.down) ELSE 0),
         avg_up_streak |-> Some(IF s.up # <<>> THEN RoundedMean(s.up) ELSE 0),
         avg_down_streak |-> Some(IF s.down # <<>> THEN RoundedMean(s.down) ELSE 0)]

\* max(runs, key=lambda r: r["length"]): the first run of the greatest length
RECURSIVE LongestRun(_)
LongestRun(rs) ==
    IF Len(rs) = 1 THEN rs[1]
    ELSE LET rest == LongestRun(Tail(rs))
         IN  IF Head(rs).length >= rest.length THEN Head(rs) ELSE rest

summarize_runs(p) ==
    LET r == compute_runs(p)
    IN  [up_runs |-> r.up_runs, down_runs |-> r.down_runs,
         up_count |-> Len(r.up_runs), down_count |-> Len(r.down_runs),
         longest_up |-> IF r.up_runs # <<>> THEN Some(LongestRun(r.up_runs)) ELSE Absent,
         longest_down |-> IF r.down_runs # <<>> THEN Some(LongestRun(r.down_runs)) ELSE Absent]

(* ---------------------------------------------------------------------- *)
(* Plot of the longest runs: plot_runs (Visualisation.py)                 *)
(* ---------------------------------------------------------------------- *)
\* a highlight that ends one bar after the run
BoldLineOneFurther(close, u) ==
    LET s == u.start
        e == u.start + u.length + 1
        n == Len(close)
    IN  [run |-> u,
         y |-> SubSeq(close, (IF s < n THEN s ELSE n) + 1, IF e + 1 < n THEN e + 1 ELSE n),
         text_at |-> e,
         raised |-> e >= n]

\* s, e = u["start"], u["start"] + u["length"]; bold_line(index[s:e+1],
\* close[s:e+1], ...); ax.text(index[e], close[e], ...): the slice is cut at
\* the end of the array, close[e] raises IndexError beyond it
BoldLine(close, u) ==
    LET s == u.start
        e == u.start + u.length
        n == Len(close)
    IN  [run |-> u,
         y |-> SubSeq(close, (IF s < n THEN s ELSE n) + 1, IF e + 1 < n THEN e + 1 ELSE n),
         text_at |-> e,
         raised |-> e >= n]

\* the two highlights of plot_runs: the first longest up run and the first
\* longest down run, None where there is no run of that direction
plot_runs(close) ==
    LET r == compute_runs(close)
    IN  [up |-> IF r.up_runs # <<>> THEN Some(BoldLine(close, LongestRun(r.up_runs))) ELSE Absent,
         down |-> IF r.down_runs # <<>> THEN Some(BoldLine(close, LongestRun(r.down_runs)))
                  ELSE Absent]

(* ---------------------------------------------------------------------- *)
(* pandas / numpy helpers used by the signal generators                   *)
(* ---------------------------------------------------------------------- *)
Min2(a, b) == IF a <= b THEN a ELSE b

\* a float that may be NaN: den = 0 stands for NaN, otherwise the value num/den
NaN == [num |-> 0, den |-> 0]
Num(v) == [num |-> v, den |-> 1]
IsNaN(a) == a.den = 0
\* comparisons with NaN are False
Gt(a, b) == ~IsNaN(a) /\ ~IsNaN(b) /\ a.num * b.den > b.num * a.den
Lt(a, b) == ~IsNaN(a) /\ ~IsNaN(b) /\ a.num * b.den < b.num * a.den

\* seq.iloc[start:stop] with Python's treatment of negative and oversized bounds
PyBound(i, n) == IF i < 0 THEN Max2(i + n, 0) ELSE Min2(i, n)
PySlice(s, start, stop) == SubSeq(s, PyBound(start, Len(s)) + 1, PyBound(stop, Len(s)))

Column(df, c) == [i \in 1..Len(df) |-> df[i][c]]

\* Series.rolling(window=w).mean().iloc[idx]: the closes the mean is taken
\* over, or the empty sequence where pandas yields NaN (fewer than w values)
RollingWindow(col, w, idx) ==
    IF idx + 1 >= w THEN SubSeq(col, idx - w + 2, idx + 1) ELSE <<>>

Mean(s) == IF s = <<>> THEN NaN ELSE [num |-> SumSeq(s), den |-> Len(s)]

RECURSIVE SeqMax(_)
SeqMax(s) == IF Len(s) = 1 THEN s[1] ELSE Max2(Head(s), SeqMax(Tail(s)))
RECURSIVE SeqMin(_)
SeqMin(s) == IF Len(s) = 1 THEN s[1] ELSE Min2(Head(s), SeqMin(Tail(s)))
\* Series.max() / Series.min(): NaN on an empty slice
SeriesMax(s) == IF s = <<>> THEN NaN ELSE Num(SeqMax(s))
SeriesMin(s) == IF s = <<>> THEN NaN ELSE Num(SeqMin(s))

\* sign of np.polyfit(range(m), y, 1)[0]: the least-squares slope is
\* (m*Sum(x*y) - Sum(x)*Sum(y)) / (m*Sum(x*x) - Sum(x)^2), denominator > 0
SlopeNumerator(y) ==
    LET m == Len(y)
        xy == [k \in 1..m |-> (k - 1) * y[k]]
        xs == [k \in 1..m |-> k - 1]
    IN  m * SumSeq(xy) - SumSeq(xs) * SumSeq(y)

\* Timedelta.days: whole days, rounded towards minus infinity
Days(hours) == hours \div 24

\* bar timestamps and the parsed target, in hours since an epoch at 00:00 UTC
BarTs(df, off, i) == 24 * df[i + 1].day + off
TargetTs(t) == 24 * t.day

\* target_date in df.index
InIndex(df, off, ts) == \E i \in 0..(Len(df) - 1) : BarTs(df, off, i) = ts
\* df.index.get_loc(ts)
GetLoc(df, off, ts) == CHOOSE i \in 0..(Len(df) - 1) : BarTs(df, off, i) = ts

\* min(df.index, key=lambda x: abs(x - target)) and distances.argmin():
\* the position of the first bar at minimal distance
ClosestIdx(df, off, ts) ==
    CHOOSE i \in 0..(Len(df) - 1) :
        /\ \A j \in 0..(Len(df) - 1) : Abs(BarTs(df, off, i) - ts) <= Abs(BarTs(df, off, j) - ts)
        /\ \A j \in 0..(i - 1) : Abs(BarTs(df, off, j) - ts) > Abs(BarTs(df, off, i) - ts)

(* ---------------------------------------------------------------------- *)
(* SignalGenerator: get_recommendation (Buy Sell Analysis.py)             *)
(* ---------------------------------------------------------------------- *)
SrWindow == 30

\* a conversion that falls back to the amount it was given when the call fails
convert_currency_fallback(amount, from_cur, to_cur, api) ==
    IF from_cur = to_cur THEN [kind |-> "native", amount |-> amount]
    ELSE IF api = "rates" THEN [kind |-> "converted", amount |-> amount]
    ELSE [kind |-> "native", amount |-> amount]

\* outcome of the Frankfurter call: what convert_currency returns
convert_currency(amount, from_cur, to_cur, api) ==
    IF from_cur = to_cur THEN [kind |-> "native", amount |-> amount]
    ELSE IF api = "rates" THEN [kind |-> "converted", amount |-> amount]
    ELSE [kind |-> "None", amount |-> 0]

\* abs((closest - target_date).days) > 7
TooFar(df, off, c, ts) == Abs(Days(BarTs(df, off, c) - ts)) > 7

\* a history check against the smaller of the two windows
EnoughHistoryMin(idx, w, lb) == ~(idx < Min2(w, lb))

\* the negation of: target_idx < max(sma_window, lookback_days)
EnoughHistory(idx, w, lb) == ~(idx < Max2(w, lb))

\* an SMA step whose upper threshold is not strict
SmaDeviationStepNonStrict(price, sma_val) ==
    LET diff_pct == IF IsNaN(sma_val) THEN NaN
                    ELSE [num |-> 100 * (price * sma_val.den - sma_val.num), den |-> sma_val.num]
    IN  IF ~Lt(diff_pct, Num(2)) /\ ~IsNaN(diff_pct) THEN [line |-> "above SMA", d |-> -2]
        ELSE IF Lt(diff_pct, Num(-2)) THEN [line |-> "below SMA", d |-> 2]
        ELSE [line |-> "near SMA", d |-> 0]

\* SMA deviation: diff_pct = (price - sma_val) / sma_val * 100 against 2 and -2;
\* yields the line appended and the change made to score
SmaDeviationStep(price, sma_val) ==
    LET diff_pct == IF IsNaN(sma_val) THEN NaN
                    ELSE [num |-> 100 * (price * sma_val.den - sma_val.num), den |-> sma_val.num]
    IN  IF Gt(diff_pct, Num(2)) THEN [line |-> "above SMA", d |-> -2]
        ELSE IF Lt(diff_pct, Num(-2)) THEN [line |-> "below SMA", d |-> 2]
        ELSE [line |-> "near SMA", d |-> 0]

\* a trend step that reads a flat series as an upward trend
TrendStepFlatIsUp(recent) ==
    LET slope == IF Len(recent) < 2 THEN 0 ELSE SlopeNumerator(recent)
    IN  IF slope >= 0 THEN [line |-> "Upward trend", d |-> -1]
        ELSE [line |-> "Downward trend", d |-> 1]

\* Trend slope: slope = np.polyfit(range(len(recent)), recent.values, 1)[0]
TrendStep(recent) ==
    LET slope == IF Len(recent) < 2 THEN 0 ELSE SlopeNumerator(recent)
    IN  IF slope > 0 THEN [line |-> "Upward trend", d |-> -1]
        ELSE [line |-> "Downward trend", d |-> 1]

\* a recommendation that calls a score of 1 or -1 a signal
RecommendFromOne(score) ==
    IF score >= 1 THEN "BUY SIGNAL"
    ELSE IF score <= -1 THEN "SELL SIGNAL" ELSE "NEUTRAL"

\* a recommendation that needs a score beyond 2 to leave NEUTRAL
RecommendStrict(score) ==
    IF score > 2 THEN "BUY SIGNAL"
    ELSE IF score < -2 THEN "SELL SIGNAL" ELSE "NEUTRAL"

\* Final recommendation: the if / elif / else on score
Recommend(score) ==
    IF score >= 2 THEN "BUY SIGNAL"
    ELSE IF score <= -2 THEN "SELL SIGNAL" ELSE "NEUTRAL"

\* a confidence taken from the signed score
ConfidencePctSigned(score) == Min2(score * 25, 100)

\* confidence_pct = int(min(abs(score) * 25, 100))
ConfidencePct(score) == Min2(Abs(score) * 25, 100)

\* the scoring part of get_recommendation, from price = ... to the return
Analyse(df, idx, date, currency, api, w, lb) ==
    LET close == Column(df, "Close")
        price == At(close, idx)
        sma_used == RollingWindow(close, w, idx)
        sma_val == Mean(sma_used)
        sma_step == SmaDeviationStep(price, sma_val)
        recent == PySlice(close, idx - lb, idx + 1)
        trend_step == TrendStep(recent)
        sr_high == PySlice(Column(df, "High"), idx - SrWindow, idx + 1)
        sr_low == PySlice(Column(df, "Low"), idx - SrWindow, idx + 1)
        recent_high == SeriesMax(sr_high)
        recent_low == SeriesMin(sr_low)
        \* pos = (price - recent_low) / (recent_high - recent_low); 0/0 is NaN
        pos == IF IsNaN(recent_high) \/ IsNaN(recent_low) \/ recent_high.num = recent_low.num
               THEN NaN
               ELSE [num |-> price - recent_low.num, den |-> recent_high.num - recent_low.num]
        sr_step == IF Gt(pos, [num |-> 8, den |-> 10]) THEN [line |-> "below resistance", d |-> -1]
                   ELSE IF Lt(pos, [num |-> 2, den |-> 10]) THEN [line |-> "above support", d |-> 1]
                   ELSE [line |-> "between support and resistance", d |-> 0]
        score == sma_step.d + trend_step.d + sr_step.d
    IN  IF recent = <<>>
        THEN [ret |-> [raised |-> "TypeError"],
              target_idx |-> idx, sma_used |-> sma_used, recent |-> recent, score |-> 0,
              deltas |-> <<>>, sr_bars |-> 0]
        ELSE [ret |-> [date |-> date,
                       price_native |-> price,
                       price_converted |-> IF currency = "USD"
                                           THEN [kind |-> "native", amount |-> price]
                                           ELSE convert_currency(price, "USD", currency, api),
                       recommendation |-> Recommend(score),
                       confidence_pct |-> ConfidencePct(score),
                       signals |-> <<sma_step.line, trend_step.line, sr_step.line>>],
              target_idx |-> idx, sma_used |-> sma_used, recent |-> recent, score |-> score,
              deltas |-> <<sma_step.d, trend_step.d, sr_step.d>>, sr_bars |-> Len(sr_high)]

\* an early return that reports every failure with one and the same message
FailedSameMessage(tag) ==
    [ret |-> [error |-> "Analysis failed"], target_idx |-> -1, sma_used |-> <<>>,
     recent |-> <<>>, score |-> 0, deltas |-> <<>>, sr_bars |-> 0]

\* an early return: no analysis was made, only the error is returned
Failed(tag) ==
    [ret |-> [error |-> tag], target_idx |-> -1, sma_used |-> <<>>, recent |-> <<>>, score |-> 0,
     deltas |-> <<>>, sr_bars |-> 0]

\* get_recommendation(target_date_str, df, currency, sma_window, lookback_days):
\* ret is the returned dict, the other fields are the locals at the return
get_recommendation(t, df, off, currency, api, w, lb) ==
    IF ~t.valid THEN Failed("Invalid date format")
    ELSE LET ts == TargetTs(t)
             snap == ~InIndex(df, off, ts)
             c == ClosestIdx(df, off, ts)
         IN  IF snap /\ TooFar(df, off, c, ts) THEN Failed("not in range")
             ELSE LET idx == IF snap THEN c ELSE GetLoc(df, off, ts)
                      date == IF snap THEN df[c + 1].day ELSE t.day
                  IN  IF ~EnoughHistory(idx, w, lb) THEN Failed("Not enough history")
                      ELSE Analyse(df, idx, date, currency, api, w, lb)

(* ---------------------------------------------------------------------- *)
(* SignalGenerator: TradingSignalGenerator.generate_signal (tess.py)      *)
(* ---------------------------------------------------------------------- *)
LookaheadDays == 10
VolumeWindow == 20

\* TechnicalIndicators.calculate_trend: sign of the slope, 0.0 below 2 points
calculate_trend(y) == IF Len(y) < 2 THEN 0 ELSE SlopeNumerator(y)

\* TechnicalIndicators.calculate_position_in_range
calculate_position_in_range(price, high, low) ==
    IF IsNaN(high) \/ IsNaN(low) THEN NaN
    ELSE IF high.num = low.num THEN [num |-> 1, den |-> 2]
    ELSE [num |-> price - low.num, den |-> high.num - low.num]

\* TechnicalIndicators.analyze_volume
analyze_volume(current, average) ==
    LET ratio == IF Gt(average, Num(0))
                 THEN [num |-> current * average.den, den |-> average.num]
                 ELSE Num(1)
    IN  IF Gt(ratio, [num |-> 15, den |-> 10]) THEN "high"
        ELSE IF Lt(ratio, [num |-> 5, den |-> 10]) THEN "low" ELSE "normal"

\* distances[closest_idx].days > 7, with distances = abs(data.index - target)
TooFarAbsFirst(df, off, c, ts) == Days(Abs(BarTs(df, off, c) - ts)) > 7

\* steps 1 to 6 of generate_signal
AnalyseSignal(df, idx, date, with_volume, w, lb) ==
    LET close == Column(df, "Close")
        price == At(close, idx)
        sma_used == RollingWindow(close, w, idx)
        target_sma == Mean(sma_used)
        \* price_to_sma = price / target_sma against 1.02 and 0.98
        price_to_sma == IF IsNaN(target_sma) THEN NaN
                        ELSE [num |-> price * target_sma.den, den |-> target_sma.num]
        sma_step == IF Gt(price_to_sma, [num |-> 102, den |-> 100])
                    THEN [lines |-> <<"above SMA - OVERBOUGHT">>, d |-> -2]
                    ELSE IF Lt(price_to_sma, [num |-> 98, den |-> 100])
                    THEN [lines |-> <<"below SMA - OVERSOLD">>, d |-> 2]
                    ELSE [lines |-> <<"Price near SMA - NEUTRAL">>, d |-> 0]
        recent_prices == PySlice(close, idx - lb, idx + 1)
        trend == calculate_trend(recent_prices)
        trend_step == IF trend > 0 THEN [lines |-> <<"Upward trend">>, d |-> -1]
                      ELSE [lines |-> <<"Downward trend">>, d |-> 1]
        lo == Max2(0, idx - SrWindow)
        position == calculate_position_in_range(
                        price,
                        SeriesMax(PySlice(Column(df, "High"), lo, idx + 1)),
                        SeriesMin(PySlice(Column(df, "Low"), lo, idx + 1)))
        sr_step == IF Gt(position, [num |-> 8, den |-> 10])
                   THEN [lines |-> <<"Near resistance level">>, d |-> -1]
                   ELSE IF Lt(position, [num |-> 2, den |-> 10])
                   THEN [lines |-> <<"Near support level">>, d |-> 1]
                   ELSE [lines |-> <<>>, d |-> 0]
        volume_status ==
            IF with_volume
            THEN analyze_volume(At(Column(df, "Volume"), idx),
                                Mean(RollingWindow(Column(df, "Volume"), VolumeWindow, idx)))
            ELSE "normal"
        volume_lines == IF volume_status = "high" THEN <<"High volume - strong conviction">>
                        ELSE IF volume_status = "low" THEN <<"Low volume - weak conviction">>
                        ELSE <<>>
        score == sma_step.d + trend_step.d + sr_step.d
        base == [date |-> date, price |-> price,
                 signals |-> sma_step.lines \o trend_step.lines \o sr_step.lines \o volume_lines,
                 score |-> score,
                 recommendation |-> IF score >= 2 THEN "BUY SIGNAL"
                                    ELSE IF score <= -2 THEN "SELL SIGNAL" ELSE "NEUTRAL",
                 confidence |-> IF score >= 3 \/ score <= -3 THEN "High"
                                ELSE IF score >= 2 \/ score <= -2 THEN "Medium" ELSE "Low"]
        \* backtesting: future_return = (future_price - price) / price * 100
        has_future == idx + LookaheadDays < Len(df)
        future_diff == At(close, idx + LookaheadDays) - price
        validated == has_future /\ 100 * Abs(future_diff) > 2 * price
        outcome == IF (future_diff > 0 /\ score > 0) \/ (future_diff < 0 /\ score < 0)
                   THEN "Good call" ELSE "Wrong call"
    IN  [ret |-> IF validated
                 THEN [date |-> base.date, price |-> base.price, signals |-> base.signals,
                       score |-> base.score, recommendation |-> base.recommendation,
                       confidence |-> base.confidence, validation |-> outcome]
                 ELSE base,
         target_idx |-> idx, sma_used |-> sma_used, recent |-> recent_prices, score |-> score,
         deltas |-> <<sma_step.d, trend_step.d, sr_step.d>>, sr_bars |-> idx + 1 - lo]

\* TradingSignalGenerator.generate_signal(target_date, data)
generate_signal(t, df, off, with_volume, w, lb) ==
    IF ~t.valid THEN Failed("Invalid date format")
    ELSE LET ts == TargetTs(t)
             snap == ~InIndex(df, off, ts)
             c == ClosestIdx(df, off, ts)
         IN  IF snap /\ TooFarAbsFirst(df, off, c, ts) THEN Failed("Date too far")
             ELSE LET idx == IF snap THEN c ELSE GetLoc(df, off, ts)
                      date == IF snap THEN df[c + 1].day ELSE t.day
                      min_history == Max2(w, lb)
                  IN  IF idx < min_history THEN Failed("Insufficient history")
                      ELSE AnalyseSignal(df, idx, date, with_volume, w, lb)

(* ---------------------------------------------------------------------- *)
(* SignalGenerator: get_recommendation (yahoofin.py)                      *)
(* ---------------------------------------------------------------------- *)
\* the analysis dict as it is built up: signals, score and the confidence counter
YfAnalysis0 == [signals |-> <<>>, score |-> 0, confidence |-> 0]

\* target_price > target_sma * 1.02 / target_price < target_sma * 0.98
YfSmaStep(analysis, target_price, target_sma) ==
    IF ~IsNaN(target_sma) /\ 100 * target_price * target_sma.den > 102 * target_sma.num
    THEN [analysis EXCEPT !.signals = Append(@, "above SMA - OVERBOUGHT signal"),
                          !.score = @ - 2]
    ELSE IF ~IsNaN(target_sma) /\ 100 * target_price * target_sma.den < 98 * target_sma.num
    THEN [analysis EXCEPT !.signals = Append(@, "below SMA - OVERSOLD signal"),
                          !.score = @ + 2]
    ELSE [analysis EXCEPT !.signals = Append(@, "near SMA - NEUTRAL")]

\* if len(recent_prices) > 1: trend_slope = np.polyfit(...)[0] ...
YfTrendStep(analysis, recent_prices) ==
    IF Len(recent_prices) > 1
    THEN IF SlopeNumerator(recent_prices) > 0
         THEN [analysis EXCEPT !.signals = Append(@, "trend: UPWARD"), !.score = @ - 1]
         ELSE [analysis EXCEPT !.signals = Append(@, "trend: DOWNWARD"), !.score = @ + 1]
    ELSE analysis

\* price_position = (target_price - recent_low) / (recent_high - recent_low)
YfSrStep(analysis, target_price, recent_high, recent_low) ==
    LET price_position ==
            IF IsNaN(recent_high) \/ IsNaN(recent_low) \/ recent_high.num = recent_low.num
            THEN NaN
            ELSE [num |-> target_price - recent_low.num, den |-> recent_high.num - recent_low.num]
    IN  IF Gt(price_position, [num |-> 8, den |-> 10])
        THEN [analysis EXCEPT !.signals = Append(@, "near 30-day high - potential RESISTANCE"),
                              !.score = @ - 1]
        ELSE IF Lt(price_position, [num |-> 2, den |-> 10])
        THEN [analysis EXCEPT !.signals = Append(@, "near 30-day low - potential SUPPORT"),
                              !.score = @ + 1]
        ELSE [analysis EXCEPT !.signals = Append(@, "in middle of 30-day range")]

\* a volume step that books the conviction on the score
YfVolumeStepScored(analysis, current_volume, avg_volume) ==
    IF ~IsNaN(avg_volume) /\ 10 * current_volume * avg_volume.den > 15 * avg_volume.num
    THEN [analysis EXCEPT !.signals = Append(@, "High volume day"), !.score = @ + 1]
    ELSE IF ~IsNaN(avg_volume) /\ 10 * current_volume * avg_volume.den < 5 * avg_volume.num
    THEN [analysis EXCEPT !.signals = Append(@, "Low volume day"), !.score = @ - 1]
    ELSE analysis

\* current_volume > avg_volume * 1.5 / current_volume < avg_volume * 0.5
YfVolumeStep(analysis, current_volume, avg_volume) ==
    IF ~IsNaN(avg_volume) /\ 10 * current_volume * avg_volume.den > 15 * avg_volume.num
    THEN [analysis EXCEPT !.signals = Append(@, "High volume day"), !.confidence = @ + 1]
    ELSE IF ~IsNaN(avg_volume) /\ 10 * current_volume * avg_volume.den < 5 * avg_volume.num
    THEN [analysis EXCEPT !.signals = Append(@, "Low volume day"), !.confidence = @ - 1]
    ELSE analysis

\* the if / elif chain on analysis['score']
YfRecommend(score) ==
    IF score >= 2 THEN "BUY SIGNAL"
    ELSE IF score <= -2 THEN "SELL SIGNAL"
    ELSE IF score = 1 THEN "WEAK BUY"
    ELSE IF score = -1 THEN "WEAK SELL"
    ELSE "NEUTRAL"

\* confidence_level
YfConfidenceLevel(score) ==
    IF Abs(score) >= 3 THEN "High" ELSE IF Abs(score) >= 2 THEN "Medium" ELSE "Low"

\* the part of get_recommendation after the history check
YfAnalyse(df, idx, date, with_volume, w, lb) ==
    LET close == Column(df, "Close")
        target_price == At(close, idx)
        sma_used == RollingWindow(close, w, idx)
        a1 == YfSmaStep(YfAnalysis0, target_price, Mean(sma_used))
        recent_prices == PySlice(close, idx - lb, idx + 1)
        a2 == YfTrendStep(a1, recent_prices)
        lo == Max2(0, idx - SrWindow)
        a3 == YfSrStep(a2, target_price,
                       SeriesMax(PySlice(Column(df, "High"), lo, idx + 1)),
                       SeriesMin(PySlice(Column(df, "Low"), lo, idx + 1)))
        a4 == IF with_volume
              THEN YfVolumeStep(a3, At(Column(df, "Volume"), idx),
                                Mean(RollingWindow(Column(df, "Volume"), VolumeWindow, idx)))
              ELSE a3
        \* future_return = (future_prices.iloc[-1] - target_price) / target_price * 100
        future_diff == At(close, idx + LookaheadDays) - target_price
        future_validation ==
            IF idx + LookaheadDays < Len(df)
            THEN IF 100 * future_diff > 2 * target_price THEN "was good BUY"
                 ELSE IF 100 * future_diff < -2 * target_price THEN "was good SELL"
                 ELSE "was NEUTRAL"
            ELSE ""
    IN  [ret |-> [recommendation |-> YfRecommend(a4.score),
                  confidence |-> YfConfidenceLevel(a4.score),
                  score |-> a4.score,
                  signals |-> a4.signals,
                  future_validation |-> future_validation,
                  price |-> target_price,
                  date |-> date],
         target_idx |-> idx, sma_used |-> sma_used, recent |-> recent_prices, score |-> a4.score,
         deltas |-> <<a1.score, a2.score - a1.score, a3.score - a2.score, a4.score - a3.score>>,
         sr_bars |-> idx + 1 - lo]

\* an early return of yahoofin's get_recommendation: a bare message string
FailedStr(tag) ==
    [ret |-> [str |-> tag], target_idx |-> -1, sma_used |-> <<>>, recent |-> <<>>, score |-> 0,
     deltas |-> <<>>, sr_bars |-> 0]

\* get_recommendation(target_date_str, data, sma_window, lookback_days)
yahoofin_get_recommendation(t, df, off, with_volume, w, lb) ==
    IF ~t.valid THEN FailedStr("Invalid date format")
    ELSE LET ts == TargetTs(t)
             snap == ~InIndex(df, off, ts)
             c == ClosestIdx(df, off, ts)
         IN  IF snap /\ TooFar(df, off, c, ts) THEN FailedStr("too far from available data")
             ELSE LET idx == IF snap THEN c ELSE GetLoc(df, off, ts)
                      date == IF snap THEN df[c + 1].day ELSE t.day
                  IN  IF idx < Max2(w, lb) THEN FailedStr("Not enough historical data")
                      ELSE YfAnalyse(df, idx, date, with_volume, w, lb)

(* ---------------------------------------------------------------------- *)
(* SmaLookup: get_sma_for_date (SMA_and_MaxProfit.py, Compute SMA.py)     *)
(* ---------------------------------------------------------------------- *)
DefaultPeriod == 30

\* a label of the index yfinance returns, and the datetime.date it falls on
Timestamp(d) == [kind |-> "Timestamp", day |-> d]
Date(d) == [kind |-> "date", day |-> d]

\* yf.download(...) / yf.Ticker(...).history(...): a frame holding the
\* downloaded columns only; Close is the one column the lookups read
Downloaded(days, closes) ==
    [index |-> [i \in 1..Len(days) |-> Timestamp(days[i])],
     columns |-> {"Close"},
     Close |-> closes, SMA |-> <<>>, BuiltinReturn |-> <<>>, ManualReturn |-> <<>>]

\* df[c] = series
SetColumn(df, c, series) == [df EXCEPT !.columns = @ \cup {c}, ![c] = series]

\* Series.rolling(window=w, min_periods=1).mean(): the mean of the last w
\* values, of fewer at the start of the series
RollingMean(col, w) == [i \in 1..Len(col) |-> Mean(SubSeq(col, Max2(i - w + 1, 1), i))]

\* pd.to_datetime(target_date): None becomes NaT, which takes part in no
\* comparison and is in no index
InFrameIndex(df, idx) ==
    idx # Absent /\ \E i \in 1..Len(df.index) : df.index[i].day = idx[1]
FrameLoc(df, day) == CHOOSE i \in 1..Len(df.index) : df.index[i].day = day

\* a snap to the label nearest to idx, later labels included
PrevIdxNearest(df, idx) ==
    IF idx = Absent \/ df.index = <<>> THEN Absent
    ELSE Some(CHOOSE i \in 1..Len(df.index) :
                  \A j \in 1..Len(df.index) :
                      \/ Abs(df.index[i].day - idx[1]) < Abs(df.index[j].day - idx[1])
                      \/ /\ Abs(df.index[i].day - idx[1]) = Abs(df.index[j].day - idx[1])
                         /\ i <= j)

\* data.index[data.index <= idx].max(): the position of the latest label
\* on or before idx; NaT (None here) when the mask selects nothing
PrevIdx(df, idx) ==
    LET mask == IF idx = Absent THEN {}
                ELSE {i \in 1..Len(df.index) : df.index[i].day <= idx[1]}
    IN  IF mask = {} THEN Absent
        ELSE Some(CHOOSE i \in mask : \A j \in mask : df.index[j].day <= df.index[i].day)

\* data['SMA'].to_csv(csv_filename)
SaveStep(df, save_to_csv, csv) == IF save_to_csv THEN Some(df.SMA) ELSE csv

\* the if / else of the lookup: every branch ends in a return
Lookup(df, idx, snap_to_previous) ==
    IF ~InFrameIndex(df, idx)
    THEN IF snap_to_previous
         THEN LET prev_idx == PrevIdx(df, idx)
              IN  IF prev_idx = Absent
                  THEN [returned |-> TRUE, value |-> Absent]
                  ELSE [returned |-> TRUE, value |-> Some(df.SMA[prev_idx[1]])]
         ELSE [returned |-> TRUE, value |-> Absent]
    ELSE [returned |-> TRUE, value |-> Some(df.SMA[FrameLoc(df, idx[1])])]

\* get_sma_for_date on the downloaded frame: the frame as the call leaves
\* it, the value returned and the contents of the CSV file
get_sma_for_date(downloaded, target_date, period, snap_to_previous, save_to_csv, csv) ==
    IF downloaded.index = <<>>
    THEN [data |-> downloaded, ret |-> Absent, csv |-> csv]
    ELSE LET df == SetColumn(downloaded, "SMA", RollingMean(downloaded.Close, period))
             found == Lookup(df, target_date, snap_to_previous)
         IN  [data |-> df, ret |-> found.value,
              csv |-> IF found.returned THEN csv ELSE SaveStep(df, save_to_csv, csv)]

(* ---------------------------------------------------------------------- *)
(* Daily returns: SimpleDailyReturn.py                                    *)
(* ---------------------------------------------------------------------- *)
\* x * k for a float that may be NaN
Times(a, k) == [num |-> a.num * k, den |-> a.den]

\* round(x, 2) in hundredths, halves to the even neighbour; NaN stays NaN
Round2(a) ==
    IF IsNaN(a) THEN NaN
    ELSE LET q == (100 * a.num) \div a.den
             r == (100 * a.num) % a.den
         IN  [num |-> IF 2 * r > a.den \/ (2 * r = a.den /\ q % 2 = 1) THEN q + 1 ELSE q,
              den |-> 100]

\* builtin = df["Close"].pct_change(): p[i] / p[i-1] - 1, NaN in row 0
PctChange(col) ==
    [i \in 1..Len(col) |->
        IF i = 1 THEN NaN ELSE [num |-> col[i] - 1 * col[i - 1], den |-> col[i - 1]]]

\* manual[1:] = (pt[1:] - pt[:-1]) / pt[:-1], NaN in row 0
ManualChange(col) ==
    [i \in 1..Len(col) |->
        IF i > 1 /\ Len(col) > 1 THEN [num |-> col[i] - col[i - 1], den |-> col[i - 1]] ELSE NaN]

compute_daily_returns(df) == [builtin |-> PctChange(df.Close), manual |-> ManualChange(df.Close)]

\* for target_date in target_dates: unparseable and absent dates are skipped
RECURSIVE DailyRowsLoop(_, _, _)
DailyRowsLoop(df, target_dates, results) ==
    IF target_dates = <<>> THEN results
    ELSE LET target_date == Head(target_dates)
             rest == Tail(target_dates)
         IN  IF ~target_date.valid THEN DailyRowsLoop(df, rest, results)
             ELSE IF ~InFrameIndex(df, Some(target_date.day))
                  THEN DailyRowsLoop(df, rest, results)
                  ELSE LET row == FrameLoc(df, target_date.day)
                       IN  DailyRowsLoop(df, rest,
                               Append(results,
                                   [date |-> target_date.day,
                                    close_price |-> Round2(Num(df.Close[row])),
                                    builtin_return |-> Round2(df.BuiltinReturn[row]),
                                    manual_return |-> Round2(df.ManualReturn[row])]))

\* get_daily_return_analysis for one ticker: the frame as the call leaves
\* it and the list returned
get_daily_return_analysis(downloaded, target_dates) ==
    IF target_dates = <<>> \/ downloaded.index = <<>>
    THEN [data |-> downloaded, ret |-> <<>>]
    ELSE LET r == compute_daily_returns(downloaded)
             df1 == SetColumn(downloaded, "BuiltinReturn",
                              [i \in 1..Len(r.builtin) |-> Times(r.builtin[i], 100)])
             df2 == SetColumn(df1, "ManualReturn",
                              [i \in 1..Len(r.manual) |-> Times(r.manual[i], 100)])
             df == [df2 EXCEPT !.index = [i \in 1..Len(@) |-> Date(@[i].day)]]
         IN  [data |-> df, ret |-> DailyRowsLoop(df, target_dates, <<>>)]

(* ---------------------------------------------------------------------- *)
(* The trade scans statement by statement                                 *)
(* (extract_trades of SMA_and_MaxProfit.py, best_time_to_buy_sell of      *)
(* yahoofin.py)                                                           *)
(* ---------------------------------------------------------------------- *)
\* a bound test that lets the scan reach the last index
HasNextOffByOne(p, i) == i < Len(p)

\* i < n - 1
HasNext(p, i) == i < Len(p) - 1

\* prices[k]: an index of n or more raises IndexError, a negative index
\* counts from the end
Raises(p, k) == k >= Len(p) \/ k < -Len(p)
Item(p, k) == At(p, IF k < 0 THEN k + Len(p) ELSE k)
IndexError(sc, ks) == [sc EXCEPT !.pc = "IndexError", !.read = ks]

\* trades, i, n = [], 0, len(prices)
ScanStart(fn) ==
    [fn |-> fn, pc |-> "while", i |-> 0, buy |-> 0, sell |-> 0, entered |-> -1,
     out |-> <<>>, read |-> {}]

\* while i < n - 1: the test of the outer loop; entered keeps the index
\* with which the iteration starts
WhileTest(p, sc) ==
    IF HasNext(p, sc.i)
    THEN [sc EXCEPT !.pc = "skip", !.entered = sc.i, !.read = {}]
    ELSE [sc EXCEPT !.pc = "return", !.read = {}]

\* what follows the first inner loop: buy = i in extract_trades;
\* if i == n - 1: break, else buy = i; i += 1 in best_time_to_buy_sell
AfterSkip(p, sc) ==
    IF sc.fn = "extract_trades" THEN [sc EXCEPT !.buy = sc.i, !.pc = "climb"]
    ELSE IF sc.i = Len(p) - 1 THEN [sc EXCEPT !.pc = "return"]
         ELSE [sc EXCEPT !.buy = sc.i, !.i = sc.i + 1, !.pc = "sell"]

\* one test of: while i < n - 1 and prices[i + 1] <= prices[i]: i += 1
SkipTest(p, sc) ==
    LET i == sc.i
        ks == IF HasNext(p, i) THEN {i + 1, i} ELSE {}
    IN  IF \E k \in ks : Raises(p, k) THEN IndexError(sc, ks)
        ELSE IF HasNext(p, i) /\ Item(p, i + 1) <= Item(p, i)
             THEN [sc EXCEPT !.i = i + 1, !.read = ks]
             ELSE AfterSkip(p, [sc EXCEPT !.read = ks])

\* one test of: while i < n - 1 and prices[i + 1] >= prices[i]: i += 1
\* and, when it fails, sell = i; if sell > buy: trades.append(...); i += 1
ClimbTest(p, sc) ==
    LET i == sc.i
        ks == IF HasNext(p, i) THEN {i + 1, i} ELSE {}
    IN  IF \E k \in ks : Raises(p, k) THEN IndexError(sc, ks)
        ELSE IF HasNext(p, i) /\ Item(p, i + 1) >= Item(p, i)
             THEN [sc EXCEPT !.i = i + 1, !.read = ks]
             ELSE [sc EXCEPT !.sell = i, !.i = i + 1, !.pc = "while", !.read = ks,
                             !.out = IF i > sc.buy THEN Append(@, <<sc.buy, i>>) ELSE @]

\* one test of: while i < n and (i == n - 1 or prices[i] >= prices[i-1]):
\* and the body: if i == n - 1 or prices[i+1] < prices[i]: sell, break;
\* else i += 1
SellTest(p, sc) ==
    LET i == sc.i
        n == Len(p)
        ks1 == IF i < n /\ i # n - 1 THEN {i, i - 1} ELSE {}
        ks2 == IF i # n - 1 THEN {i + 1, i} ELSE {}
    IN  IF \E k \in ks1 : Raises(p, k) THEN IndexError(sc, ks1)
        ELSE IF ~(i < n /\ (i = n - 1 \/ Item(p, i) >= Item(p, i - 1)))
             THEN [sc EXCEPT !.pc = "while", !.read = ks1]
             ELSE IF \E k \in ks2 : Raises(p, k) THEN IndexError(sc, ks1 \cup ks2)
                  ELSE IF i = n - 1 \/ Item(p, i + 1) < Item(p, i)
                       THEN [sc EXCEPT !.sell = i, !.pc = "while", !.read = ks1 \cup ks2,
                                       !.out = Append(@, <<sc.buy, i>>)]
                       ELSE [sc EXCEPT !.i = i + 1, !.read = ks1 \cup ks2]

(* ---------------------------------------------------------------------- *)
(* Drivers                                                                *)
(* ---------------------------------------------------------------------- *)
vars == <<prices, ran, profit, trades, tx, streaks, runs, prevStreaks, flatAt,
          data, barOffset, hasVolume, target, params, recResult, sigResult,
          summary, runSummary, yfResult, prevResult, edit, apiReply,
          frame, lookupArgs, smaValue, csvFile, dailyRows, scan, bold>>

NoStreaks == [up |-> <<>>, down |-> <<>>, details |-> <<>>]
NoRuns == [up_runs |-> <<>>, down_runs |-> <<>>]

Pending ==
    [ret |-> [pending |-> TRUE], target_idx |-> -1, sma_used |-> <<>>, recent |-> <<>>, score |-> 0,
     deltas |-> <<>>, sr_bars |-> 0]

\* the summaries before any call: nothing counted, nothing reported
NoAnalysis ==
    [total_trading_days |-> 0, upward_streaks |-> 0, downward_streaks |-> 0,
     longest_up_streak |-> Absent, longest_down_streak |-> Absent,
     avg_up_streak |-> Absent, avg_down_streak |-> Absent]
NoSummary ==
    [up_runs |-> <<>>, down_runs |-> <<>>, up_count |-> 0, down_count |-> 0,
     longest_up |-> Absent, longest_down |-> Absent]

\* nothing highlighted
NoPlot == [up |-> Absent, down |-> Absent]

Idle ==
    /\ ran = {}
    /\ profit = 0 /\ trades = <<>> /\ tx = <<>>
    /\ streaks = NoStreaks /\ runs = NoRuns /\ prevStreaks = NoStreaks /\ flatAt = -1
    /\ recResult = Pending /\ sigResult = Pending
    /\ summary = NoAnalysis /\ runSummary = NoSummary /\ bold = NoPlot
    /\ yfResult = Pending /\ prevResult = Pending /\ edit = "none" /\ apiReply = "not called"

NoTable ==
    /\ data = <<>> /\ barOffset = 0 /\ hasVolume = FALSE
    /\ target = [valid |-> FALSE, day |-> 0]
    /\ params = [sma_window |-> 1, lookback_days |-> 1, currency |-> "USD"]

\* no lookup call: nothing downloaded, nothing returned, no file written
NoLookup ==
    /\ frame = Downloaded(<<>>, <<>>)
    /\ lookupArgs = [target_date |-> Absent, period |-> DefaultPeriod,
                     snap_to_previous |-> TRUE, save_to_csv |-> FALSE]
    /\ smaValue = Absent /\ csvFile = Absent /\ dailyRows = <<>>

\* no scan under way
NoScan ==
    scan = [fn |-> "none", pc |-> "return", i |-> 0, buy |-> 0, sell |-> 0, entered |-> 0,
            out |-> <<>>, read |-> {}]

\* profit = max_profit_multiple(closes)
MaxProfit ==
    /\ "max_profit_multiple" \notin ran
    /\ profit' = max_profit_multiple(prices)
    /\ ran' = ran \cup {"max_profit_multiple"}
    /\ UNCHANGED <<lookupVars, scan, prices, trades, tx, streakVars, signalVars>>

\* pairs = extract_trades(closes)
ExtractTrades ==
    /\ "extract_trades" \notin ran
    /\ trades' = extract_trades(prices)
    /\ ran' = ran \cup {"extract_trades"}
    /\ UNCHANGED <<lookupVars, scan, prices, profit, tx, streakVars, signalVars>>

\* tx = best_time_to_buy_sell(close_vals)
BestTimeToBuySell ==
    /\ "best_time_to_buy_sell" \notin ran
    /\ tx' = best_time_to_buy_sell(prices)
    /\ ran' = ran \cup {"best_time_to_buy_sell"}
    /\ UNCHANGED <<lookupVars, scan, prices, profit, trades, streakVars, signalVars>>

InitProfit == prices \in PriceArrays /\ Idle /\ NoTable /\ NoLookup /\ NoScan
NextProfit == MaxProfit \/ ExtractTrades \/ BestTimeToBuySell
SpecProfit == InitProfit /\ [][NextProfit]_vars

\* up, down, details = calculate_streaks(df["Close"].values, df)
CalculateStreaks ==
    /\ "calculate_streaks" \notin ran
    /\ streaks' = calculate_streaks(prices)
    /\ ran' = ran \cup {"calculate_streaks"}
    /\ UNCHANGED <<lookupVars, scan, bold, prices, profitVars, runs, prevStreaks, flatAt, summary, runSummary, signalVars>>

\* up_runs, down_runs = compute_runs(close)
ComputeRuns ==
    /\ "compute_runs" \notin ran
    /\ runs' = compute_runs(prices)
    /\ ran' = ran \cup {"compute_runs"}
    /\ UNCHANGED <<lookupVars, scan, bold, prices, profitVars, streaks, prevStreaks, flatAt, summary, runSummary, signalVars>>

\* the array with prices[k] repeated right after position k
InsertDuplicate(p, k) == SubSeq(p, 1, k + 1) \o <<At(p, k)>> \o SubSeq(p, k + 2, Len(p))

\* the same series with one more flat day after bar k, analysed again
InsertFlatDay(k) ==
    /\ "calculate_streaks" \in ran
    /\ flatAt = -1
    /\ Len(prices) < MaxLen
    /\ prices' = InsertDuplicate(prices, k)
    /\ prevStreaks' = streaks
    /\ streaks' = calculate_streaks(prices')
    /\ flatAt' = k
    /\ runs' = NoRuns
    /\ summary' = NoAnalysis /\ runSummary' = NoSummary /\ bold' = NoPlot
    /\ ran' = {"calculate_streaks"}
    /\ UNCHANGED <<lookupVars, scan, profitVars, signalVars>>

\* runs_data = get_runs_analysis(ticker, start_year, end_year)
GetRunsAnalysis ==
    /\ "get_runs_analysis" \notin ran
    /\ summary' = get_runs_analysis(prices)
    /\ ran' = ran \cup {"get_runs_analysis"}
    /\ UNCHANGED <<lookupVars, scan, bold, prices, profitVars, streaks, runs, prevStreaks, flatAt, runSummary, signalVars>>

\* runs = summarize_runs(close_vals)
SummarizeRuns ==
    /\ "summarize_runs" \notin ran
    /\ runSummary' = summarize_runs(prices)
    /\ ran' = ran \cup {"summarize_runs"}
    /\ UNCHANGED <<lookupVars, scan, bold, prices, profitVars, streaks, runs, prevStreaks, flatAt, summary, signalVars>>

\* plot_runs(df_year, ticker)
PlotRuns ==
    /\ "plot_runs" \notin ran
    /\ bold' = plot_runs(prices)
    /\ ran' = ran \cup {"plot_runs"}
    /\ UNCHANGED <<lookupVars, scan, prices, profitVars, streaks, runs, prevStreaks, flatAt,
                   summary, runSummary, signalVars>>

InitStreak == prices \in PriceArrays /\ Idle /\ NoTable /\ NoLookup /\ NoScan
NextStreak ==
    \/ CalculateStreaks
    \/ ComputeRuns
    \/ GetRunsAnalysis
    \/ SummarizeRuns
    \/ PlotRuns
    \/ \E k \in 0..(Len(prices) - 1) : InsertFlatDay(k)
SpecStreak == InitStreak /\ [][NextStreak]_vars

(* ---------------------------------------------------------------------- *)
(* Driver of the signal generators                                        *)
(* ---------------------------------------------------------------------- *)
\* what the caller branches on: "error" in result / a dict with a recommendation
IsError(r, tag) == "error" \in DOMAIN r.ret /\ r.ret.error = tag
IsSuccess(r) == "recommendation" \in DOMAIN r.ret

\* closes on which price / SMA sits at, inside and outside the 2% band
CloseLevels == {49, 51, 52}
\* 0: an index stamped at 00:00 UTC; 5: the index yfinance returns for the
\* default ticker SPY, stamped at New York midnight (05:00 UTC)
BarOffsets == {0, 5}
Currencies == {"USD", "EUR"}
\* what the currency API does: a rates reply, a reply without rates, an exception
ApiOutcomes == {"rates", "unexpected", "exception"}
Windows == 1..MaxWindow

\* calendar days of n bars separated by the given gaps
RECURSIVE DaysFrom(_, _)
DaysFrom(first, gaps) ==
    IF gaps = <<>> THEN <<first>> ELSE <<first>> \o DaysFrom(first + Head(gaps), Tail(gaps))

Table(days, closes, spread) ==
    [i \in 1..Len(days) |->
        [day |-> days[i], Close |-> closes[i], High |-> closes[i] + spread,
         Low |-> closes[i] - spread, Volume |-> 10 * i]]

\* tables with irregular calendars and one close pattern
DateTables ==
    {Table(DaysFrom(FirstDay, g), [i \in 1..(Len(g) + 1) |-> 50 + i], 1) :
        g \in UNION {[1..(n - 1) -> 1..MaxGap] : n \in 1..MaxBars}}

\* tables on consecutive days with every close pattern
PriceTables ==
    {Table([i \in 1..Len(c) |-> FirstDay + i - 1], c, sp) :
        c \in UNION {[1..n -> CloseLevels] : n \in 1..MaxBars}, sp \in {0, 1}}

InitSignal ==
    /\ prices = <<1>> /\ Idle /\ NoLookup /\ NoScan
    /\ barOffset \in BarOffsets
    /\ \/ /\ data \in DateTables
          /\ hasVolume = TRUE
          /\ target \in {[valid |-> FALSE, day |-> 0]} \cup
                        {[valid |-> TRUE, day |-> d] :
                            d \in (FirstDay - Reach)..(data[Len(data)].day + Reach)}
          /\ params \in [sma_window : Windows, lookback_days : Windows, currency : {"USD"}]
       \/ /\ data \in PriceTables
          /\ hasVolume \in BOOLEAN
          /\ target \in {[valid |-> TRUE, day |-> data[i].day] : i \in 1..Len(data)}
          /\ params \in [sma_window : Windows, lookback_days : Windows, currency : Currencies]

\* result = get_recommendation(date_in, df, currency)
GetRecommendation ==
    /\ ran = {}
    /\ \E api \in ApiOutcomes :
          /\ recResult' = get_recommendation(target, data, barOffset, params.currency, api,
                                             params.sma_window, params.lookback_days)
          /\ apiReply' = IF "error" \in DOMAIN recResult'.ret \/ params.currency = "USD"
                         THEN "not called" ELSE api
    /\ ran' = {"get_recommendation"}
    /\ UNCHANGED <<lookupVars, scan, prices, profitVars, streakVars, data, barOffset, hasVolume, target, params,
                   sigResult, yfResult, prevResult, edit>>

\* result = generator.generate_signal(user_input, data)
GenerateSignal ==
    /\ ran = {}
    /\ sigResult' = generate_signal(target, data, barOffset, hasVolume,
                               params.sma_window, params.lookback_days)
    /\ ran' = {"generate_signal"}
    /\ UNCHANGED <<lookupVars, scan, prices, profitVars, streakVars, data, barOffset, hasVolume, target, params,
                   recResult, yfResult, prevResult, edit, apiReply>>

\* result = get_recommendation(user_input, data_filtered)
GetRecommendationYf ==
    /\ ran = {}
    /\ yfResult' = yahoofin_get_recommendation(target, data, barOffset, hasVolume,
                                               params.sma_window, params.lookback_days)
    /\ ran' = {"yahoofin_get_recommendation"}
    /\ UNCHANGED <<lookupVars, scan, prices, profitVars, streakVars, data, barOffset, hasVolume, target, params,
                   recResult, sigResult, prevResult, edit, apiReply>>

NextSignal == GetRecommendation \/ GenerateSignal \/ GetRecommendationYf
SpecSignal == InitSignal /\ [][NextSignal]_vars

(* ---------------------------------------------------------------------- *)
(* Driver of the scoring steps on tables longer than the 30-bar window    *)
(* ---------------------------------------------------------------------- *)
MaxExtra == 2      \* tables have up to this many bars beyond SrWindow + 1

\* closes of the one bar that stands out of a flat series
SpikeLevels == {47, 53}
\* volumes written into the target bar before the call is repeated
VolumeLevels == {0, 1000}

\* n consecutive trading days closing at 50, but for bar j (0-based)
LongTable(n, j, level, spread) ==
    Table([i \in 1..n |-> FirstDay + i - 1],
          [i \in 1..n |-> IF i = j + 1 THEN level ELSE 50], spread)

LongTables ==
    {LongTable(SrWindow + 1 + k, j, level, sp) :
        k \in 0..MaxExtra, j \in 0..MaxExtra, level \in SpikeLevels, sp \in {0, 1}}

\* positions asked for: the first bars, the first bar with a full volume
\* window, and the bars from the last one short of a full 30-bar lookback on
TargetIdxs(n) == (0..(MaxWindow + 1)) \cup {VolumeWindow - 1} \cup ((SrWindow - 1)..(n - 1))

InitScore ==
    /\ prices = <<1>> /\ Idle /\ NoLookup /\ NoScan
    /\ barOffset \in BarOffsets
    /\ data \in LongTables
    /\ hasVolume \in BOOLEAN
    /\ target \in {[valid |-> TRUE, day |-> data[i + 1].day] : i \in TargetIdxs(Len(data))}
    /\ params \in [sma_window : Windows, lookback_days : Windows, currency : Currencies]

\* the table with another volume in bar idx
WithVolumeAt(df, idx, v) == [df EXCEPT ![idx + 1].Volume = v]

\* the same series, but for the Volume of the analysed bar, analysed again
\* by generate_signal
RepeatSignalOtherVolume(v) ==
    /\ ran = {"generate_signal"} /\ edit = "none" /\ IsSuccess(sigResult)
    /\ hasVolume
    /\ data' = WithVolumeAt(data, sigResult.target_idx, v)
    /\ prevResult' = sigResult
    /\ sigResult' = generate_signal(target, data', barOffset, hasVolume,
                                    params.sma_window, params.lookback_days)
    /\ edit' = "volume"
    /\ UNCHANGED <<lookupVars, scan, prices, ran, profitVars, streakVars, barOffset, hasVolume, target, params,
                   recResult, yfResult, apiReply>>

\* the same series with the Volume column dropped or added, analysed again
\* by generate_signal
RepeatSignalToggleVolume ==
    /\ ran = {"generate_signal"} /\ edit = "none" /\ IsSuccess(sigResult)
    /\ hasVolume' = ~hasVolume
    /\ prevResult' = sigResult
    /\ sigResult' = generate_signal(target, data, barOffset, hasVolume',
                                    params.sma_window, params.lookback_days)
    /\ edit' = "volume"
    /\ UNCHANGED <<lookupVars, scan, prices, ran, profitVars, streakVars, data, barOffset, target, params,
                   recResult, yfResult, apiReply>>

\* the same for get_recommendation of yahoofin.py
RepeatYfOtherVolume(v) ==
    /\ ran = {"yahoofin_get_recommendation"} /\ edit = "none" /\ IsSuccess(yfResult)
    /\ hasVolume
    /\ data' = WithVolumeAt(data, yfResult.target_idx, v)
    /\ prevResult' = yfResult
    /\ yfResult' = yahoofin_get_recommendation(target, data', barOffset, hasVolume,
                                               params.sma_window, params.lookback_days)
    /\ edit' = "volume"
    /\ UNCHANGED <<lookupVars, scan, prices, ran, profitVars, streakVars, barOffset, hasVolume, target, params,
                   recResult, sigResult, apiReply>>

RepeatYfToggleVolume ==
    /\ ran = {"yahoofin_get_recommendation"} /\ edit = "none" /\ IsSuccess(yfResult)
    /\ hasVolume' = ~hasVolume
    /\ prevResult' = yfResult
    /\ yfResult' = yahoofin_get_recommendation(target, data, barOffset, hasVolume',
                                               params.sma_window, params.lookback_days)
    /\ edit' = "volume"
    /\ UNCHANGED <<lookupVars, scan, prices, ran, profitVars, streakVars, data, barOffset, target, params,
                   recResult, sigResult, apiReply>>

\* the same inputs with target currency USD, analysed again by get_recommendation
RepeatInUSD ==
    /\ ran = {"get_recommendation"} /\ edit = "none" /\ IsSuccess(recResult)
    /\ params.currency # "USD"
    /\ params' = [params EXCEPT !.currency = "USD"]
    /\ prevResult' = recResult
    /\ \E api \in ApiOutcomes :
          recResult' = get_recommendation(target, data, barOffset, "USD", api,
                                          params.sma_window, params.lookback_days)
    /\ edit' = "currency"
    /\ UNCHANGED <<lookupVars, scan, prices, ran, profitVars, streakVars, data, barOffset, hasVolume, target,
                   sigResult, yfResult, apiReply>>

NextScore ==
    \/ GetRecommendation
    \/ GenerateSignal
    \/ GetRecommendationYf
    \/ \E v \in VolumeLevels : RepeatSignalOtherVolume(v)
    \/ RepeatSignalToggleVolume
    \/ \E v \in VolumeLevels : RepeatYfOtherVolume(v)
    \/ RepeatYfToggleVolume
    \/ RepeatInUSD
SpecScore == InitScore /\ [][NextScore]_vars

(* ---------------------------------------------------------------------- *)
(* Driver of the lookups: SMA on a date, daily returns on dates           *)
(* ---------------------------------------------------------------------- *)
\* closes 2, 5, 3, 3, 5, ...: a rise, a fall, a flat step
ClosePattern(i) == ((i * i) % 7) + 1

\* what a download returns: no rows, or bars on an irregular calendar with
\* 1..MaxGap+1 calendar days between consecutive bars (a weekend is 3)
Frames ==
    {Downloaded(<<>>, <<>>)} \cup
    {Downloaded(DaysFrom(FirstDay, g), [i \in 1..(Len(g) + 1) |-> ClosePattern(i)]) :
        g \in UNION {[1..(n - 1) -> 1..(MaxGap + 1)] : n \in 1..MaxBars}}


\* the target_dates lists tried with a target date: none, the date, the
\* date after an unparseable string, the date and the next day
DateLists(t) ==
    IF t = Absent THEN {<<>>}
    ELSE {<<>>,
          <<[valid |-> TRUE, day |-> t[1]]>>,
          <<[valid |-> FALSE, day |-> 0], [valid |-> TRUE, day |-> t[1]]>>,
          <<[valid |-> TRUE, day |-> t[1]], [valid |-> TRUE, day |-> t[1] + 1]>>}

InitLookup ==
    /\ prices = <<1>> /\ Idle /\ NoTable /\ NoScan
    /\ frame \in Frames
    /\ lookupArgs \in [target_date : {Absent} \cup
                           {Some(d) : d \in IF frame.index = <<>> THEN {FirstDay}
                                            ELSE (FirstDay - 2)..
                                                 (frame.index[Len(frame.index)].day + 2)},
                       period : Windows \cup {DefaultPeriod}, snap_to_previous : BOOLEAN, save_to_csv : BOOLEAN]
    /\ smaValue = Absent /\ csvFile = Absent /\ dailyRows = <<>>

\* get_sma_for_date(ticker, start, period=sma_days, target_date=user_date, ...)
GetSmaForDate ==
    /\ ran = {}
    /\ LET r == get_sma_for_date(frame, lookupArgs.target_date, lookupArgs.period,
                                 lookupArgs.snap_to_previous, lookupArgs.save_to_csv, csvFile)
       IN  frame' = r.data /\ smaValue' = r.ret /\ csvFile' = r.csv
    /\ ran' = {"get_sma_for_date"}
    /\ UNCHANGED <<prices, profitVars, streakVars, signalVars, lookupArgs, dailyRows, scan>>

\* get_daily_return_analysis(tickers=ticker, target_dates=...)
GetDailyReturnAnalysis ==
    /\ ran = {}
    /\ \E target_dates \in DateLists(lookupArgs.target_date) :
          LET r == get_daily_return_analysis(frame, target_dates)
          IN  frame' = r.data /\ dailyRows' = r.ret
    /\ ran' = {"get_daily_return_analysis"}
    /\ UNCHANGED <<prices, profitVars, streakVars, signalVars, lookupArgs, smaValue, csvFile,
                   scan>>

NextLookup == GetSmaForDate \/ GetDailyReturnAnalysis
SpecLookup == InitLookup /\ [][NextLookup]_vars

(* ---------------------------------------------------------------------- *)
(* Driver of the date resolution on tables of any exchange                *)
(* ---------------------------------------------------------------------- *)
\* Tokyo midnight, the stamp of the bars of a ticker listed there, is
\* 15:00 UTC of the day before
EasternOffset == -9

\* interactive_mode of Buy Sell Analysis.py loads the ticker the user
\* enters; tess.py and yahoofin.py load SPY
InitExchange ==
    /\ prices = <<1>> /\ Idle /\ NoLookup /\ NoScan
    /\ barOffset \in BarOffsets \cup {EasternOffset}
    /\ data \in DateTables
    /\ hasVolume = TRUE
    /\ target \in {[valid |-> TRUE, day |-> d] :
                      d \in (FirstDay - 1)..(data[Len(data)].day + 1)}
    /\ params \in [sma_window : Windows, lookback_days : Windows, currency : {"USD"}]

NextExchange ==
    \/ GetRecommendation
    \/ barOffset \in BarOffsets /\ GenerateSignal
    \/ barOffset \in BarOffsets /\ GetRecommendationYf
SpecExchange == InitExchange /\ [][NextExchange]_vars

(* ---------------------------------------------------------------------- *)
(* Driver of the trade scans, one loop test per step                      *)
(* ---------------------------------------------------------------------- *)
InitScan ==
    /\ prices \in PriceArrays /\ Idle /\ NoTable /\ NoLookup
    /\ scan \in {ScanStart(fn) : fn \in {"extract_trades", "best_time_to_buy_sell"}}

WhileStep ==
    /\ scan.pc = "while"
    /\ scan' = WhileTest(prices, scan)
    /\ UNCHANGED <<prices, ran, profitVars, streakVars, signalVars, lookupVars>>

SkipStep ==
    /\ scan.pc = "skip"
    /\ scan' = SkipTest(prices, scan)
    /\ UNCHANGED <<prices, ran, profitVars, streakVars, signalVars, lookupVars>>

ClimbStep ==
    /\ scan.pc = "climb"
    /\ scan' = ClimbTest(prices, scan)
    /\ UNCHANGED <<prices, ran, profitVars, streakVars, signalVars, lookupVars>>

SellStep ==
    /\ scan.pc = "sell"
    /\ scan' = SellTest(prices, scan)
    /\ UNCHANGED <<prices, ran, profitVars, streakVars, signalVars, lookupVars>>

NextScan == WhileStep \/ SkipStep \/ ClimbStep \/ SellStep
\* a running call executes its next statement
SpecScan == InitScan /\ [][NextScan]_vars /\ WF_vars(NextScan)

(* ---------------------------------------------------------------------- *)
(* Properties of the ProfitMaximizer (SpecProfit)                         *)
(* ---------------------------------------------------------------------- *)
Ran(f) == f \in ran

\* sum of prices[sell] - prices[buy] over a list of (buy, sell) pairs
RECURSIVE TradeGains(_, _)
TradeGains(p, t) ==
    IF t = <<>> THEN 0
    ELSE (At(p, Head(t)[2]) - At(p, Head(t)[1])) + TradeGains(p, Tail(t))

\* C1: max_profit_multiple(prices) equals the sum of prices[sell] - prices[buy]
\* over the (buy, sell) pairs returned by extract_trades(prices).
C1_ProfitEqualsTradeGains ==
    (Ran("max_profit_multiple") /\ Ran("extract_trades"))
        => profit = TradeGains(prices, trades)

C1_Witness ==
    /\ Ran("max_profit_multiple") /\ Ran("extract_trades")
    /\ Len(trades) >= 2
    /\ \E i \in 1..(Len(prices) - 1) : prices[i] = prices[i + 1]

\* pairs are in bounds, strictly profitable, ordered and non-overlapping
WellFormedTrades(p, t) ==
    /\ \A k \in 1..Len(t) :
          /\ 0 <= t[k][1] /\ t[k][1] < t[k][2] /\ t[k][2] <= Len(p) - 1
          /\ At(p, t[k][2]) > At(p, t[k][1])
    /\ \A k \in 1..(Len(t) - 1) : t[k][2] < t[k + 1][1]

\* C2: every pair (buy, sell) satisfies 0 <= buy < sell <= len(prices)-1 and
\* prices[sell] > prices[buy], and each pair's sell index is strictly less
\* than the next pair's buy index (extract_trades and best_time_to_buy_sell).
C2_TradesWellFormed ==
    /\ Ran("extract_trades") => WellFormedTrades(prices, trades)
    /\ Ran("best_time_to_buy_sell") => WellFormedTrades(prices, tx)

C2_Witness ==
    /\ Ran("extract_trades") /\ Ran("best_time_to_buy_sell")
    /\ Len(trades) >= 2 /\ Len(tx) >= 2
    /\ \E k \in 1..Len(trades) : trades[k][2] > trades[k][1] + 1

NonIncreasing(p) == \A i \in 1..(Len(p) - 1) : p[i + 1] <= p[i]

\* C3: for every price sequence that has fewer than 2 elements or is
\* non-increasing, max_profit_multiple returns 0 and extract_trades returns
\* the empty list.
C3_NoProfitWhenNonIncreasing ==
    NonIncreasing(prices) =>
        /\ Ran("max_profit_multiple") => profit = 0
        /\ Ran("extract_trades") => trades = <<>>

C3_Witness ==
    /\ Ran("max_profit_multiple") /\ Ran("extract_trades")
    /\ NonIncreasing(prices)
    /\ \E i \in 1..(Len(prices) - 1) : prices[i + 1] < prices[i]
    /\ \E i \in 1..(Len(prices) - 1) : prices[i + 1] = prices[i]

\* C25: extract_trades and best_time_to_buy_sell return the same list of
\* (buy, sell) pairs for every price sequence, flat steps and plateaus at
\* the end included.
C25_SameTrades ==
    (Ran("extract_trades") /\ Ran("best_time_to_buy_sell")) => trades = tx

\* both have run on an array that rises over a flat step and ends on a
\* plateau, and the last sale is on the last bar
C25_Witness ==
    /\ Ran("extract_trades") /\ Ran("best_time_to_buy_sell")
    /\ trades # <<>> /\ trades = tx
    /\ Len(prices) >= 3
    /\ prices[Len(prices)] = prices[Len(prices) - 1]
    /\ trades[Len(trades)][2] = Len(prices) - 1
    /\ \E k \in 1..Len(trades) : \E i \in (trades[k][1] + 1)..trades[k][2] :
          At(prices, i) = At(prices, i - 1)
\* both have run on an array that falls onto a plateau at its end
C25_WitnessFlatBottom ==
    /\ Ran("extract_trades") /\ Ran("best_time_to_buy_sell")
    /\ Len(prices) >= 3
    /\ prices[Len(prices)] = prices[Len(prices) - 1]
    /\ prices[Len(prices) - 1] < prices[Len(prices) - 2]
    /\ trades # <<>>

(* ---------------------------------------------------------------------- *)
(* Properties of the StreakDetector (SpecStreak)                          *)
(* ---------------------------------------------------------------------- *)
\* 0-based positions i of the steps prices[i-1] -> prices[i]
Steps(p) == 1..(Len(p) - 1)
NonFlatSteps(p) == {i \in Steps(p) : At(p, i) # At(p, i - 1)}
NoFlatStep(p) == NonFlatSteps(p) = Steps(p)
StepDir(p, i) == IF At(p, i) > At(p, i - 1) THEN "up"
                 ELSE IF At(p, i) < At(p, i - 1) THEN "down" ELSE "flat"

RECURSIVE SumLengths(_)
SumLengths(rs) == IF rs = <<>> THEN 0 ELSE Head(rs).length + SumLengths(Tail(rs))

C5_LengthIsEndMinusStart ==
    Ran("calculate_streaks") =>
        \A k \in 1..Len(streaks.details) :
            streaks.details[k].length = streaks.details[k].end - streaks.details[k].start

\* C6: inserting a duplicate of any price immediately after it leaves the
\* list of up-streak lengths and the list of down-streak lengths unchanged.
C6_FlatDayInvisible ==
    flatAt # -1 => (streaks.up = prevStreaks.up /\ streaks.down = prevStreaks.down)

C6_Witness ==
    /\ flatAt >= 1 /\ flatAt + 2 <= Len(prices) - 1
    /\ At(prices, flatAt - 1) < At(prices, flatAt)
    /\ At(prices, flatAt + 1) < At(prices, flatAt + 2)
    /\ prevStreaks.up = <<2>>

StreakExample == <<1, 2, 3, 2, 2, 5>>

HasDetail(dir, len, s, e) ==
    \E k \in 1..Len(streaks.details) :
        /\ streaks.details[k].direction = dir /\ streaks.details[k].length = len
        /\ streaks.details[k].start = s /\ streaks.details[k].end = e

\* C7 as stated: for closes = [1,2,3,2,2,5] the detector reports an up streak
\* of length 2 covering indices [0,2] and a later up streak of length 1
\* covering indices [3,5].
C7_ExampleAsStated ==
    (prices = StreakExample /\ Ran("calculate_streaks"))
        => (HasDetail("up", 2, 0, 2) /\ HasDetail("up", 1, 3, 5))

\* C7 amended: for closes = [1,2,3,2,2,5] the detector reports an up streak
\* of length 2 covering indices [0,2] and a later up streak of length 1
\* covering indices [4,5].
C7_ExampleAmended ==
    (prices = StreakExample /\ Ran("calculate_streaks"))
        => /\ HasDetail("up", 2, 0, 2) /\ HasDetail("up", 1, 4, 5)
           /\ streaks.up = <<2, 1>>

C7_Witness == prices = StreakExample /\ Ran("calculate_streaks") /\ flatAt = -1

\* steps at which a streak ends under the skip policy: a rising or falling
\* step whose next rising or falling step, if any, has the other direction
SkipStreakEnds(p) ==
    {i \in NonFlatSteps(p) :
        \A j \in NonFlatSteps(p) :
            (j > i /\ \A m \in NonFlatSteps(p) : ~(i < m /\ m < j))
                => StepDir(p, j) # StepDir(p, i)}

\* steps at which a run ends under the hard-break policy: a rising or falling
\* step that is the last step or is followed by a step of another kind
BreakRunEnds(p) ==
    {i \in NonFlatSteps(p) : i = Len(p) - 1 \/ StepDir(p, i + 1) # StepDir(p, i)}

EndsOf(p, ends, dir) == Cardinality({i \in ends : StepDir(p, i) = dir})

\* C8: the detector returns two empty lists exactly when the input has no
\* strictly rising or falling step; otherwise every streak, the one still in
\* progress at the end of the input included, is emitted exactly once, so a
\* two-element strictly increasing series yields one up streak of length 1
\* and no down streak (calculate_streaks and compute_runs).
C8_FinalStreakFlushedOnce ==
    /\ Ran("calculate_streaks") =>
          /\ (streaks.up = <<>> /\ streaks.down = <<>>) <=> (NonFlatSteps(prices) = {})
          /\ Len(streaks.up) = EndsOf(prices, SkipStreakEnds(prices), "up")
          /\ Len(streaks.down) = EndsOf(prices, SkipStreakEnds(prices), "down")
          /\ Len(streaks.details) = Len(streaks.up) + Len(streaks.down)
          /\ (Len(prices) = 2 /\ prices[1] < prices[2])
                => (streaks.up = <<1>> /\ streaks.down = <<>>)
    /\ Ran("compute_runs") =>
          /\ (runs.up_runs = <<>> /\ runs.down_runs = <<>>) <=> (NonFlatSteps(prices) = {})
          /\ Len(runs.up_runs) = EndsOf(prices, BreakRunEnds(prices), "up")
          /\ Len(runs.down_runs) = EndsOf(prices, BreakRunEnds(prices), "down")
          /\ (Len(prices) = 2 /\ prices[1] < prices[2])
                => (runs.up_runs = <<[start |-> 0, length |-> 1]>> /\ runs.down_runs = <<>>)

C8_Witness ==
    /\ Ran("calculate_streaks") /\ Ran("compute_runs")
    /\ Len(prices) = 2 /\ prices[1] < prices[2]
    /\ streaks.up = <<1>>

C8_WitnessOpenAtEnd ==
    /\ Ran("calculate_streaks") /\ Ran("compute_runs")
    /\ Len(prices) >= 4
    /\ At(prices, Len(prices) - 1) = At(prices, Len(prices) - 2)
    /\ Len(streaks.up) >= 1 /\ Len(streaks.down) >= 1

\* the streaks of one direction reported by calculate_streaks, as runs
StreaksAsRuns(dir) ==
    LET ds == SelectSeq(streaks.details, LAMBDA d : d.direction = dir)
    IN  [k \in 1..Len(ds) |-> [start |-> ds[k].start, length |-> ds[k].length]]
Lengths(rs) == [k \in 1..Len(rs) |-> rs[k].length]

\* C26: on a sequence without two equal consecutive prices, compute_runs
\* and calculate_streaks report the same up and down lengths, in the same
\* order, with the same start indices.
C26_SameOnNoFlatSteps ==
    (Ran("calculate_streaks") /\ Ran("compute_runs") /\ NoFlatStep(prices)) =>
        /\ streaks.up = Lengths(runs.up_runs)
        /\ streaks.down = Lengths(runs.down_runs)
        /\ StreaksAsRuns("up") = runs.up_runs
        /\ StreaksAsRuns("down") = runs.down_runs

\* both ran on a sequence without flat steps that has two up streaks and a
\* down streak, one of them longer than a single step
C26_Witness ==
    /\ Ran("calculate_streaks") /\ Ran("compute_runs") /\ NoFlatStep(prices)
    /\ Len(runs.up_runs) >= 2 /\ Len(runs.down_runs) >= 1
    /\ \E k \in 1..Len(runs.up_runs) : runs.up_runs[k].length >= 2
    /\ runs.up_runs[2].start > 0
\* with a flat step the two policies differ
C26_DifferWithFlatStep ==
    /\ Ran("calculate_streaks") /\ Ran("compute_runs") /\ ~NoFlatStep(prices)
    /\ streaks.up # Lengths(runs.up_runs)

\* a run lies inside the array and each of its steps goes its direction
RunWellFormed(p, r, dir) ==
    /\ r.length >= 1
    /\ 0 <= r.start /\ r.start + r.length <= Len(p) - 1
    /\ \A i \in (r.start + 1)..(r.start + r.length) : StepDir(p, i) = dir
\* two runs have at most one bar in common
AtMostEndpoint(a, b) == a.start + a.length <= b.start \/ b.start + b.length <= a.start
\* all runs of compute_runs, each tagged with its direction and position
TaggedRuns ==
    {<<"up", k>> : k \in 1..Len(runs.up_runs)} \cup {<<"down", k>> : k \in 1..Len(runs.down_runs)}
RunOf(t) == IF t[1] = "up" THEN runs.up_runs[t[2]] ELSE runs.down_runs[t[2]]
\* the highlight covers the bars start..start+length of the array, whole
SliceInBounds(p, b) ==
    b # Absent =>
        /\ ~b[1].raised
        /\ b[1].text_at <= Len(p) - 1
        /\ b[1].y = SubSeq(p, b[1].run.start + 1, b[1].run.start + b[1].run.length + 1)
        /\ Len(b[1].y) = b[1].run.length + 1

\* C29: every run of compute_runs has length >= 1 and start + length <= N-1,
\* its steps all rise (up run) or all fall (down run), two runs share at
\* most an endpoint, and the slice [start, start+length] that plot_runs
\* highlights lies inside the array.
C29_RunsWellFormed ==
    /\ Ran("compute_runs") =>
          /\ \A t \in TaggedRuns : RunWellFormed(prices, RunOf(t), t[1])
          /\ \A t, u \in TaggedRuns : t # u => AtMostEndpoint(RunOf(t), RunOf(u))
    /\ Ran("plot_runs") => SliceInBounds(prices, bold.up) /\ SliceInBounds(prices, bold.down)

\* compute_runs and plot_runs ran on an array whose last run is the longest
\* up run, ends on the last bar and starts where a down run ends
C29_Witness ==
    /\ Ran("compute_runs") /\ Ran("plot_runs")
    /\ bold.up # Absent /\ bold.down # Absent
    /\ bold.up[1].text_at = Len(prices) - 1
    /\ bold.up[1].run.length >= 2
    /\ \E k \in 1..Len(runs.down_runs) :
          runs.down_runs[k].start + runs.down_runs[k].length = bold.up[1].run.start

(* ---------------------------------------------------------------------- *)
(* Properties of the SignalGenerator (SpecSignal)                         *)
(* ---------------------------------------------------------------------- *)

TradingDays == {data[i].day : i \in 1..Len(data)}
\* calendar days between the target and the trading day nearest to it
DayDist == CHOOSE d \in 0..(2 * Reach + MaxBars * (MaxGap + 1)) :
              /\ \E x \in TradingDays : Abs(x - target.day) = d
              /\ \A x \in TradingDays : Abs(x - target.day) >= d
\* position of the first trading day at that distance
NearestIdx == CHOOSE i \in 0..(Len(data) - 1) :
                 /\ Abs(data[i + 1].day - target.day) = DayDist
                 /\ \A j \in 0..(i - 1) : Abs(data[j + 1].day - target.day) > DayDist

\* the date rule of the design: out of range exactly beyond 7 calendar days,
\* otherwise the analysis runs at a nearest trading day
DateRule(r, tag) ==
    (target.valid /\ target.day \notin TradingDays) =>
        /\ IsError(r, tag) <=> DayDist > 7
        /\ IsSuccess(r) => Abs(r.ret.date - target.day) = DayDist

\* C9: when the target date is not a trading day, signal generation fails
\* with DateOutOfRange exactly when the nearest trading day is more than 7
\* calendar days from the target, whether that day lies before or after the
\* target; within 7 days the analysis is performed at the nearest day.
C9_SevenDayRule ==
    /\ Ran("get_recommendation") => DateRule(recResult, "not in range")
    /\ Ran("generate_signal") => DateRule(sigResult, "Date too far")

\* the part of C9 that get_recommendation of Buy Sell Analysis.py satisfies
C9_GetRecommendationOnly ==
    Ran("get_recommendation") => DateRule(recResult, "not in range")

\* the strict windows of the design at position idx
FullSmaWindow(idx) == SubSeq(Column(data, "Close"), idx - params.sma_window + 2, idx + 1)
FullTrendWindow(idx) == SubSeq(Column(data, "Close"), idx - params.lookback_days + 1, idx + 1)

HistoryRule(r, rangeTag, historyTag) ==
    /\ (target.valid /\ ~IsError(r, rangeTag)) =>
          (IsError(r, historyTag)
              <=> NearestIdx < Max2(params.sma_window, params.lookback_days))
    /\ IsSuccess(r) =>
          /\ r.target_idx = NearestIdx
          /\ r.target_idx - params.sma_window + 1 >= 0
          /\ r.target_idx - params.lookback_days >= 0
          /\ Len(r.sma_used) = params.sma_window
          /\ r.sma_used = FullSmaWindow(r.target_idx)
          /\ Len(r.recent) = params.lookback_days + 1
          /\ r.recent = FullTrendWindow(r.target_idx)

\* C10: signal generation fails with InsufficientHistory whenever the
\* resolved index idx < max(sma_window, lookback_days); in every non-error
\* result the SMA is the mean of exactly sma_window closes ending at idx and
\* the trend is fitted over exactly lookback_days + 1 closes ending at idx.
C10_StrictWindows ==
    /\ Ran("get_recommendation") => HistoryRule(recResult, "not in range", "Not enough history")
    /\ Ran("generate_signal") => HistoryRule(sigResult, "Date too far", "Insufficient history")

C10_Witness ==
    /\ Ran("get_recommendation") /\ IsSuccess(recResult)
    /\ params.sma_window = 2 /\ params.lookback_days = 1
    /\ recResult.target_idx = 2
    /\ recResult.sma_used[1] # recResult.sma_used[2]

C10_WitnessRefused ==
    /\ Ran("generate_signal") /\ IsError(sigResult, "Insufficient history")
    /\ params.sma_window = 1 /\ params.lookback_days = 2
    /\ NearestIdx = 1

(* ---------------------------------------------------------------------- *)
(* Properties of the scoring steps (SpecSignal, SpecScore)                *)
(* ---------------------------------------------------------------------- *)
\* the rationale lines of the three generators, step by step
SmaLines(f) ==
    IF f = "get_recommendation"
    THEN [above |-> "above SMA", below |-> "below SMA", near |-> "near SMA"]
    ELSE IF f = "generate_signal"
    THEN [above |-> "above SMA - OVERBOUGHT", below |-> "below SMA - OVERSOLD",
          near |-> "Price near SMA - NEUTRAL"]
    ELSE [above |-> "above SMA - OVERBOUGHT signal", below |-> "below SMA - OVERSOLD signal",
          near |-> "near SMA - NEUTRAL"]
TrendLines(f) ==
    IF f = "yahoofin_get_recommendation"
    THEN [up |-> "trend: UPWARD", down |-> "trend: DOWNWARD"]
    ELSE [up |-> "Upward trend", down |-> "Downward trend"]
SrLines(f) ==
    IF f = "get_recommendation"
    THEN [high |-> "below resistance", low |-> "above support",
          mid |-> "between support and resistance"]
    ELSE IF f = "generate_signal"
    THEN [high |-> "Near resistance level", low |-> "Near support level", mid |-> "no line"]
    ELSE [high |-> "near 30-day high - potential RESISTANCE",
          low |-> "near 30-day low - potential SUPPORT", mid |-> "in middle of 30-day range"]
VolumeLines(f) ==
    IF f = "generate_signal"
    THEN {"High volume - strong conviction", "Low volume - weak conviction"}
    ELSE IF f = "yahoofin_get_recommendation" THEN {"High volume day", "Low volume day"}
    ELSE {}

ResultOf(f) ==
    IF f = "get_recommendation" THEN recResult
    ELSE IF f = "generate_signal" THEN sigResult ELSE yfResult
Generators == {"get_recommendation", "generate_signal", "yahoofin_get_recommendation"}
Succeeded(f) == Ran(f) /\ IsSuccess(ResultOf(f))

\* price and SMA of the design at position idx: pct = (price - sma) / sma * 100
\* compared with a bound b, cleared of the two divisions (the closes are positive)
PriceAt(idx) == data[idx + 1].Close
PctMinus(idx, b) ==
    LET win == FullSmaWindow(idx)
    IN  100 * (PriceAt(idx) * Len(win) - SumSeq(win)) - b * SumSeq(win)

SmaRule(f) ==
    Succeeded(f) =>
        LET r == ResultOf(f)
            above == PctMinus(r.target_idx, 2) > 0
            below == PctMinus(r.target_idx, -2) < 0
        IN  /\ r.deltas[1] = (IF above THEN -2 ELSE IF below THEN 2 ELSE 0)
            /\ r.ret.signals[1] = (IF above THEN SmaLines(f).above
                                   ELSE IF below THEN SmaLines(f).below ELSE SmaLines(f).near)

\* C11: with pct = (price - sma) / sma * 100 the SMA-deviation step lowers
\* the score by 2 (above-SMA line) iff pct > 2, raises it by 2 (below-SMA
\* line) iff pct < -2 and leaves it unchanged (near-SMA line) otherwise; a
\* price exactly 2% above or below the SMA takes the near-SMA branch.
C11_SmaThresholdsStrict == \A f \in Generators : SmaRule(f)

\* a price exactly 2% above the SMA, analysed by get_recommendation
C11_Witness ==
    /\ Succeeded("get_recommendation")
    /\ PctMinus(recResult.target_idx, 2) = 0
    /\ recResult.ret.signals[1] = "near SMA"

\* a price exactly 2% below the SMA, analysed by generate_signal
C11_WitnessBelow ==
    /\ Succeeded("generate_signal")
    /\ PctMinus(sigResult.target_idx, -2) = 0
    /\ sigResult.deltas[1] = 0

\* the sign of the least-squares slope of y against 0..len-1: that of the sum
\* of (j - i) * (y[j] - y[i]) over the pairs i < j
PairSlope(y) ==
    LET pairs == {pr \in (1..Len(y)) \X (1..Len(y)) : pr[1] < pr[2]}
        RECURSIVE Sum(_)
        Sum(ps) == IF ps = {} THEN 0
                   ELSE LET pr == CHOOSE x \in ps : TRUE
                        IN  (pr[2] - pr[1]) * (y[pr[2]] - y[pr[1]]) + Sum(ps \ {pr})
    IN  Sum(pairs)

TrendRule(f) ==
    Succeeded(f) =>
        LET r == ResultOf(f)
            up == PairSlope(FullTrendWindow(r.target_idx)) > 0
            isTrendLine(l) == l \in {TrendLines(f).up, TrendLines(f).down}
        IN  /\ r.deltas[2] = (IF up THEN -1 ELSE 1)
            /\ r.ret.signals[2] = (IF up THEN TrendLines(f).up ELSE TrendLines(f).down)
            /\ Cardinality({k \in 1..Len(r.ret.signals) : isTrendLine(r.ret.signals[k])}) = 1

\* C12: the least-squares slope of the trailing lookback_days + 1 closes
\* decides the trend step: a strictly positive slope subtracts 1 (upward
\* trend), a zero or negative slope adds 1 (downward trend); the step always
\* changes the score by exactly +1 or -1 and appends exactly one line.
C12_TrendStep == \A f \in Generators : TrendRule(f)

\* a flat trend window, read as a downward trend
C12_Witness ==
    /\ \E f \in Generators :
          /\ Succeeded(f)
          /\ PairSlope(FullTrendWindow(ResultOf(f).target_idx)) = 0
          /\ ResultOf(f).deltas[2] = 1
    /\ params.lookback_days = 2

\* a rise followed by a smaller fall: the slope is positive
C12_WitnessUp ==
    /\ Succeeded("yahoofin_get_recommendation")
    /\ params.lookback_days = 2
    /\ yfResult.recent = <<49, 52, 51>>
    /\ yfResult.deltas[2] = -1

\* the support/resistance verdict of the design at position idx, with the
\* range taken over the trailing nbars bars ending at idx, or over bars
\* 0..idx when fewer are available
SrExpected(idx, nbars) ==
    LET first == Max2(0, idx - nbars + 1)
        hi == SeqMax(SubSeq(Column(data, "High"), first + 1, idx + 1))
        lw == SeqMin(SubSeq(Column(data, "Low"), first + 1, idx + 1))
        price == PriceAt(idx)
    IN  IF hi = lw THEN 0
        ELSE IF 10 * (price - lw) > 8 * (hi - lw) THEN -1
        ELSE IF 10 * (price - lw) < 2 * (hi - lw) THEN 1
        ELSE 0

SrRule(f, nbars) ==
    Succeeded(f) => ResultOf(f).deltas[3] = SrExpected(ResultOf(f).target_idx, nbars)

\* C13: for every resolved index idx that passes the history check, idx < 30
\* included, the support/resistance step takes the position of the price
\* within [min(Low), max(High)] over the trailing 30 bars ending at idx, or
\* over bars 0..idx when fewer are available; a position > 0.8 subtracts 1,
\* a position < 0.2 adds 1, otherwise the score is unchanged.
C13_SupportResistance == \A f \in Generators : SrRule(f, SrWindow)

\* the same rule with the range taken over bars idx-30..idx, 31 bars, as the
\* slices of generate_signal and of yahoofin's get_recommendation take it
C13_ThirtyOneBars ==
    SrRule("generate_signal", SrWindow + 1) /\ SrRule("yahoofin_get_recommendation", SrWindow + 1)

\* the rule that get_recommendation follows once idx >= 30
C13_GetRecommendationFromBar30 ==
    (Succeeded("get_recommendation") /\ recResult.target_idx >= SrWindow)
        => SrRule("get_recommendation", SrWindow + 1)

\* the 31-bar rule for get_recommendation at every index: violated below 30
C13_GetRecommendationAnyIndex == SrRule("get_recommendation", SrWindow + 1)

\* get_recommendation at idx = 1 of a 31-bar table: the slice iloc[-29:2] is
\* empty, the position is NaN and the step leaves the score alone although
\* the price sits on the low of bars 0..1
C13_EmptySliceReached ==
    /\ Succeeded("get_recommendation")
    /\ Len(data) = SrWindow + 1 /\ recResult.target_idx = 1
    /\ data[1].Close = 53 /\ data[1].High = 53
    /\ recResult.sr_bars = 0 /\ recResult.deltas[3] = 0
    /\ recResult.ret.signals[3] = "between support and resistance"
    /\ SrExpected(1, SrWindow) = 1

\* generate_signal at idx = 30 with the only high of the table in bar 0: the
\* slice still holds bar 0, the trailing 30 bars do not
C13_ThirtyOneBarsReached ==
    /\ Succeeded("generate_signal")
    /\ sigResult.target_idx = SrWindow /\ sigResult.sr_bars = SrWindow + 1
    /\ data[1].Close = 53 /\ data[1].High = 53
    /\ sigResult.deltas[3] = 1
    /\ SrExpected(SrWindow, SrWindow) = 0

\* the three-way reading of the score in the design
ThreeWay(score) == IF score >= 2 THEN "BUY SIGNAL" ELSE IF score <= -2 THEN "SELL SIGNAL" ELSE "NEUTRAL"

C14_WitnessWeakBuy ==
    /\ Succeeded("yahoofin_get_recommendation")
    /\ yfResult.ret.score = 1 /\ yfResult.ret.recommendation = "WEAK BUY"

\* a score of exactly 2 and of exactly -2
C14_WitnessBuy == Succeeded("generate_signal") /\ sigResult.score = 2
C14_WitnessSell == Succeeded("get_recommendation") /\ recResult.score = -2

\* min(|score| * 25, 100)
LinearConfidence(score) == IF Abs(score) >= 4 THEN 100 ELSE 25 * Abs(score)
ConfidenceLabel(score) ==
    IF score >= 3 \/ score <= -3 THEN "High"
    ELSE IF score = 2 \/ score = -2 THEN "Medium" ELSE "Low"

ReportsPercent(r) ==
    /\ "confidence_pct" \in DOMAIN r.ret
    /\ r.ret.confidence_pct = LinearConfidence(r.score)
ReportsLabel(r) ==
    /\ DOMAIN r.ret \cap {"confidence", "confidence_pct"} = {"confidence"}
    /\ r.ret.confidence = ConfidenceLabel(r.score)

\* C15 as stated: the confidence reported with every successful signal equals
\* min(|score| * 25, 100) percent, where score is the final score of the call.
C15_LinearConfidence ==
    \A f \in Generators : Succeeded(f) => ReportsPercent(ResultOf(f))

\* C15 amended: get_recommendation (Buy Sell Analysis) reports the confidence
\* min(|score| * 25, 100) percent; generate_signal and get_recommendation of
\* yahoofin report a label instead: High for |score| >= 3, Medium for
\* |score| = 2, Low otherwise.
C15_Amended ==
    /\ Succeeded("get_recommendation") => ReportsPercent(recResult)
    /\ Succeeded("generate_signal") => ReportsLabel(sigResult)
    /\ Succeeded("yahoofin_get_recommendation") => ReportsLabel(yfResult)

\* a SELL at score -3: 75 percent
C15_Witness ==
    /\ Succeeded("get_recommendation")
    /\ recResult.score = -3 /\ recResult.ret.confidence_pct = 75

\* the greatest score, 4: 100 percent
C15_WitnessFull ==
    /\ Succeeded("get_recommendation")
    /\ Abs(recResult.score) = 4 /\ recResult.ret.confidence_pct = 100

C15_WitnessLabel ==
    /\ Succeeded("generate_signal")
    /\ sigResult.score = 2 /\ sigResult.ret.confidence = "Medium"

LinesOf(rec) == {rec[k] : k \in DOMAIN rec}

\* one SMA line, one trend line, one support/resistance line, then at most
\* one volume line
OneLinePerStep(f) ==
    Succeeded(f) =>
        LET sg == ResultOf(f).ret.signals
        IN  /\ Len(sg) \in {3, 4}
            /\ sg[1] \in LinesOf(SmaLines(f))
            /\ sg[2] \in LinesOf(TrendLines(f))
            /\ sg[3] \in LinesOf(SrLines(f))
            /\ Len(sg) = 4 => sg[4] \in VolumeLines(f)

\* C16: every successful signal result carries exactly one rationale line for
\* each of the SMA-deviation, trend and support/resistance steps, in that
\* evaluation order (followed by at most one volume line); no step completes
\* without appending its line.
C16_OneLinePerStep == \A f \in Generators : OneLinePerStep(f)

\* the part of C16 that get_recommendation of Buy Sell Analysis and of
\* yahoofin satisfy
C16_BothGetRecommendation ==
    OneLinePerStep("get_recommendation") /\ OneLinePerStep("yahoofin_get_recommendation")

\* generate_signal with the price in the middle of its range: two lines only
C16_MissingLineReached ==
    /\ Succeeded("generate_signal")
    /\ sigResult.deltas[3] = 0
    /\ Len(sigResult.ret.signals) = 2

\* generate_signal with a volume line in third place
C16_VolumeLineThirdReached ==
    /\ Succeeded("generate_signal")
    /\ Len(sigResult.ret.signals) = 3
    /\ sigResult.ret.signals[3] \in VolumeLines("generate_signal")

\* the generator whose call was repeated on the edited input
Repeated == CHOOSE f \in Generators : Ran(f)

\* C17: the volume step never moves the score or the recommendation: two
\* calls on series that are identical except for the Volume column (or its
\* absence) return the same score and the same recommendation.
C17_VolumeLeavesScore ==
    edit = "volume" =>
        /\ ResultOf(Repeated).score = prevResult.score
        /\ ResultOf(Repeated).ret.score = prevResult.ret.score
        /\ ResultOf(Repeated).ret.recommendation = prevResult.ret.recommendation

\* a high-volume line in one call of yahoofin's get_recommendation, a
\* low-volume line in the other
C17_Witness ==
    /\ edit = "volume" /\ Ran("yahoofin_get_recommendation")
    /\ Len(prevResult.ret.signals) = 4 /\ Len(yfResult.ret.signals) = 4
    /\ prevResult.ret.signals[4] = "High volume day"
    /\ yfResult.ret.signals[4] = "Low volume day"

\* a volume line in one call of generate_signal, no Volume column in the other
C17_WitnessNoColumn ==
    /\ edit = "volume" /\ Ran("generate_signal") /\ ~hasVolume
    /\ \E k \in 1..Len(prevResult.ret.signals) :
          prevResult.ret.signals[k] \in VolumeLines("generate_signal")
    /\ \A k \in 1..Len(sigResult.ret.signals) :
          sigResult.ret.signals[k] \notin VolumeLines("generate_signal")

\* the messages of the three failure modes, generator by generator
ErrorTags(f) ==
    IF f = "get_recommendation"
    THEN [format |-> "Invalid date format", range |-> "not in range",
          history |-> "Not enough history"]
    ELSE IF f = "generate_signal"
    THEN [format |-> "Invalid date format", range |-> "Date too far",
          history |-> "Insufficient history"]
    ELSE [format |-> "Invalid date format", range |-> "too far from available data",
          history |-> "Not enough historical data"]

\* the error the caller sees: the "error" entry of the dict, or the bare
\* string that yahoofin's get_recommendation returns
Reported(r) ==
    IF "error" \in DOMAIN r.ret THEN <<r.ret.error>>
    ELSE IF "str" \in DOMAIN r.ret THEN <<r.ret.str>>
    ELSE <<>>

FailureModesRule(f) ==
    Ran(f) =>
        LET r == ResultOf(f)
            tags == ErrorTags(f)
        IN  \* nothing escapes as an exception: a success or a reported error
            /\ "raised" \notin DOMAIN r.ret
            /\ IsSuccess(r) <=> Reported(r) = <<>>
            /\ Reported(r) # <<>> => Reported(r)[1] \in LinesOf(tags)
            \* the three messages differ, so the modes can be told apart
            /\ Cardinality(LinesOf(tags)) = 3
            \* an error result carries nothing but the message
            /\ Reported(r) # <<>> => DOMAIN r.ret \in {{"error"}, {"str"}}
            \* each mode is reported under its own message
            /\ (Reported(r) = <<tags.format>>) <=> ~target.valid
            /\ (target.valid /\ DayDist > 8) => Reported(r) = <<tags.range>>
            /\ Reported(r) = <<tags.range>> => (target.valid /\ DayDist >= 7)
            /\ Reported(r) = <<tags.history>> =>
                  (target.valid /\ \E i \in 0..(Max2(params.sma_window, params.lookback_days) - 1) :
                                      i < Len(data) /\ Abs(data[i + 1].day - target.day) <= 8)
            /\ (target.valid /\ target.day \in TradingDays
                  /\ NearestIdx < Max2(params.sma_window, params.lookback_days))
                  => Reported(r) = <<tags.history>>

C18_WitnessFormat ==
    Ran("yahoofin_get_recommendation") /\ Reported(yfResult) = <<"Invalid date format">>

C18_WitnessHistory ==
    /\ Ran("generate_signal") /\ IsError(sigResult, "Insufficient history")
    /\ target.day \in TradingDays

\* C19: a failed currency conversion is non-fatal: when the conversion
\* collaborator fails or returns an unexpected shape, get_recommendation
\* still returns a success whose converted price is marked unavailable and
\* whose date, native price, recommendation, confidence and rationale lines
\* are identical to those returned for the same inputs with target currency
\* USD.
C19_ConversionFailureNonFatal ==
    (Ran("get_recommendation") /\ apiReply \in {"unexpected", "exception"}) =>
        /\ edit = "none" =>
              /\ IsSuccess(recResult)
              /\ recResult.ret.price_converted.kind = "None"
        /\ edit = "currency" =>
              /\ IsSuccess(prevResult) /\ IsSuccess(recResult)
              /\ prevResult.ret.price_converted.kind = "None"
              /\ recResult.ret.price_converted = [kind |-> "native", amount |-> recResult.ret.price_native]
              /\ recResult.ret.date = prevResult.ret.date
              /\ recResult.ret.price_native = prevResult.ret.price_native
              /\ recResult.ret.recommendation = prevResult.ret.recommendation
              /\ recResult.ret.confidence_pct = prevResult.ret.confidence_pct
              /\ recResult.ret.signals = prevResult.ret.signals

\* the API raised during a EUR call that ended in a SELL; the USD call followed
C19_Witness ==
    /\ Ran("get_recommendation") /\ edit = "currency" /\ apiReply = "exception"
    /\ prevResult.ret.price_converted.kind = "None"
    /\ prevResult.ret.recommendation = "SELL SIGNAL"
    /\ params.currency = "USD"

C19_WitnessUnexpected ==
    /\ Ran("get_recommendation") /\ edit = "none" /\ apiReply = "unexpected"
    /\ params.currency = "EUR" /\ IsSuccess(recResult)

\* C20: when a direction has no streaks, the streak summary reports that
\* direction's mean (and maximum) length as absent/undefined, never as the
\* number 0.
C20_AbsentNotZero ==
    /\ Ran("get_runs_analysis") =>
          /\ summary.upward_streaks = 0 =>
                (summary.avg_up_streak = Absent /\ summary.longest_up_streak = Absent)
          /\ summary.downward_streaks = 0 =>
                (summary.avg_down_streak = Absent /\ summary.longest_down_streak = Absent)
    /\ Ran("summarize_runs") =>
          /\ runSummary.up_count = 0 => runSummary.longest_up = Absent
          /\ runSummary.down_count = 0 => runSummary.longest_down = Absent

\* the part of C20 that summarize_runs of yahoofin satisfies
C20_SummarizeRunsOnly ==
    Ran("summarize_runs") =>
        /\ runSummary.up_count = 0 <=> runSummary.longest_up = Absent
        /\ runSummary.down_count = 0 <=> runSummary.longest_down = Absent

\* closes that only rise: get_runs_analysis reports a mean of 0 for the
\* down direction
C20_ZeroReached ==
    /\ Ran("get_runs_analysis") /\ prices = <<1, 2>>
    /\ summary.downward_streaks = 0
    /\ summary.avg_down_streak = Some(0) /\ summary.longest_down_streak = Some(0)
    /\ summary.avg_up_streak = Some(100)

(* ---------------------------------------------------------------------- *)
(* Properties of the lookups (SpecLookup)                                 *)
(* ---------------------------------------------------------------------- *)
\* the frame keeps its rows, its columns and its index
SameSeries(before, after) ==
    /\ after.index = before.index
    /\ after.columns = before.columns
    /\ after.Close = before.Close

\* C21: no call modifies the price series it works on: every step leaves
\* the downloaded frame with the same rows, the same columns and the same
\* index, so that an SMA or a return series is never a column of it.
C21_SeriesNeverModified == [][SameSeries(frame, frame')]_vars

\* the calls leave the close prices alone
C21_ClosesKept == [][frame'.Close = frame.Close /\ Len(frame'.index) = Len(frame.index)]_vars
\* get_sma_for_date has returned and the frame holds an SMA column
C21_SmaColumnAdded == "get_sma_for_date" \in ran /\ "SMA" \in frame.columns
\* get_daily_return_analysis has returned and the frame is indexed by dates
C21_IndexReplaced ==
    /\ "get_daily_return_analysis" \in ran
    /\ \E i \in 1..Len(frame.index) : frame.index[i].kind = "date"

\* the trading days of the frame and the positions on or before a day
FrameDays(df) == {df.index[i].day : i \in 1..Len(df.index)}
OnOrBefore(df, d) == {i \in 1..Len(df.index) : df.index[i].day <= d}
\* the latest trading day on or before d
LatestOnOrBefore(df, d) ==
    CHOOSE i \in OnOrBefore(df, d) : \A j \in OnOrBefore(df, d) : j <= i
\* the mean of the closes of the last w bars ending at bar i
SmaOfBar(df, i, w) ==
    LET lo == IF i > w THEN i - w + 1 ELSE 1
    IN  [num |-> SumSeq(SubSeq(df.Close, lo, i)), den |-> i - lo + 1]
\* the call was made for a date that is not a trading day of the frame
NonTradingTarget ==
    /\ "get_sma_for_date" \in ran
    /\ frame.index # <<>>
    /\ lookupArgs.target_date # Absent
    /\ lookupArgs.target_date[1] \notin FrameDays(frame)

\* C22: for a target date that is not a trading day, get_sma_for_date with
\* snap_to_previous returns the SMA of the latest trading day on or before
\* the target, and None when there is no such day; without snap_to_previous
\* it returns None.
C22_SnapToPrevious ==
    NonTradingTarget =>
        LET d == lookupArgs.target_date[1]
        IN  IF lookupArgs.snap_to_previous /\ OnOrBefore(frame, d) # {}
            THEN smaValue = Some(SmaOfBar(frame, LatestOnOrBefore(frame, d), lookupArgs.period))
            ELSE smaValue = Absent

\* the next trading day is nearer to the target than the previous one, and
\* the value returned is the previous day's SMA, not the next day's
C22_Witness ==
    /\ NonTradingTarget /\ lookupArgs.snap_to_previous
    /\ \E i \in 1..(Len(frame.index) - 1) :
          LET d == lookupArgs.target_date[1]
          IN  /\ frame.index[i].day < d /\ d < frame.index[i + 1].day
              /\ frame.index[i + 1].day - d < d - frame.index[i].day
              /\ smaValue = Some(frame.SMA[i])
              /\ smaValue # Some(frame.SMA[i + 1])
\* a target before the first trading day: None
C22_WitnessNone ==
    /\ NonTradingTarget /\ lookupArgs.snap_to_previous
    /\ lookupArgs.target_date[1] < frame.index[1].day
    /\ smaValue = Absent
\* no snapping: None although an earlier trading day exists
C22_WitnessNoSnap ==
    /\ NonTradingTarget /\ ~lookupArgs.snap_to_previous
    /\ OnOrBefore(frame, lookupArgs.target_date[1]) # {}
    /\ smaValue = Absent

\* C23: when get_sma_for_date is called with save_to_csv and the lookup
\* succeeds, the SMA values are in the CSV file once the call has returned.
C23_SavedBeforeReturn ==
    ("get_sma_for_date" \in ran /\ lookupArgs.save_to_csv /\ smaValue # Absent)
        => csvFile # Absent

\* no call writes the file: the save step follows an if / else whose
\* branches all return
C23_NeverSaved == csvFile = Absent
\* a call with save_to_csv that returned a value
C23_SuccessfulCallReached ==
    "get_sma_for_date" \in ran /\ lookupArgs.save_to_csv /\ smaValue # Absent

(* ---------------------------------------------------------------------- *)
(* Properties of the trade scans (SpecScan)                               *)
(* ---------------------------------------------------------------------- *)
\* every index read lies in 0..n-1 and no read has raised
ReadsInBounds ==
    /\ scan.pc # "IndexError"
    /\ \A k \in scan.read : 0 <= k /\ k <= Len(prices) - 1
\* at every test of the outer loop the index is beyond the one the
\* previous iteration started with, and it never passes n
IndexAdvances ==
    /\ scan.pc = "while" => scan.i > scan.entered
    /\ scan.i <= Len(prices)
\* the scan has reached its return statement
Returned == scan.pc = "return"

\* C24: extract_trades and best_time_to_buy_sell terminate on every
\* sequence: the scan index grows with every outer iteration, every read
\* stays inside 0..n-1, and the return statement is reached.
C24_ScansTerminate == [](ReadsInBounds /\ IndexAdvances) /\ <>Returned

\* a scan that returned after three outer iterations, having read the last bar
C24_Witness ==
    /\ Returned /\ Len(scan.out) >= 2 /\ scan.entered > 1
    /\ scan.i >= Len(prices) - 1
\* the statement-by-statement scans return what the functions return
C24_SameAsFunctions ==
    Returned =>
        scan.out = IF scan.fn = "extract_trades" THEN extract_trades(prices)
                   ELSE best_time_to_buy_sell(prices)

(* ---------------------------------------------------------------------- *)
(* Order of the failure checks (SpecSignal)                               *)
(* ---------------------------------------------------------------------- *)
\* the target is a date more than 7 calendar days before the first bar
LongBeforeFirstBar == target.valid /\ target.day < data[1].day - 7

\* format and range are decided before history
FormatThenRange(f) ==
    Ran(f) =>
        /\ ~target.valid => Reported(ResultOf(f)) = <<ErrorTags(f).format>>
        /\ LongBeforeFirstBar => Reported(ResultOf(f)) = <<ErrorTags(f).range>>
\* the history error is only given for a date within 7 calendar days of a bar
HistoryOnlyInRange(f) ==
    (Ran(f) /\ Reported(ResultOf(f)) = <<ErrorTags(f).history>>) =>
        target.valid /\ DayDist <= 7

\* C27: the failure conditions are checked in the order date format, date
\* range, history: a parseable target more than 7 days before the first bar
\* gets the out-of-range error, never the insufficient-history error, and
\* the insufficient-history error is only returned for a target that
\* resolved to a bar within 7 days (get_recommendation, generate_signal).
C27_FailureOrder ==
    \A f \in {"get_recommendation", "generate_signal"} :
        FormatThenRange(f) /\ HistoryOnlyInRange(f)

\* the part of C27 on targets before the first bar, in every variant
C27_BeforeFirstBar == \A f \in Generators : FormatThenRange(f)
\* C27 for the two variants that take .days before abs()
C27_FlooredVariants ==
    \A f \in {"get_recommendation", "yahoofin_get_recommendation"} :
        FormatThenRange(f) /\ HistoryOnlyInRange(f)
\* generate_signal answers insufficient history for a target 8 calendar
\* days after the nearest bar
C27_HistoryBeyondSevenDays ==
    /\ Ran("generate_signal")
    /\ Reported(sigResult) = <<"Insufficient history">>
    /\ target.valid /\ DayDist = 8
\* a target long before the first bar was rejected as out of range
C27_RangeBeforeHistoryReached ==
    /\ Ran("generate_signal") /\ LongBeforeFirstBar
    /\ Reported(sigResult) = <<"Date too far">>
    /\ Len(data) <= Max2(params.sma_window, params.lookback_days)

(* ---------------------------------------------------------------------- *)
(* Bounds of score and confidence (SpecSignal)                            *)
(* ---------------------------------------------------------------------- *)
\* C28: every successful get_recommendation has a score in -4..4, so that
\* |score| * 25 never exceeds 100; every BUY or SELL carries a confidence
\* of at least 50 percent and every NEUTRAL one of at most 25 percent.
C28_ScoreAndConfidenceBounds ==
    Succeeded("get_recommendation") =>
        /\ recResult.score \in -4..4
        /\ Abs(recResult.score) * 25 <= 100
        /\ recResult.ret.recommendation \in {"BUY SIGNAL", "SELL SIGNAL"}
              => recResult.ret.confidence_pct >= 50
        /\ recResult.ret.recommendation = "NEUTRAL" => recResult.ret.confidence_pct <= 25

\* a BUY at the top of the range and at the lowest confidence a signal has
C28_Witness ==
    /\ Succeeded("get_recommendation")
    /\ recResult.score = 4 /\ recResult.ret.recommendation = "BUY SIGNAL"
    /\ recResult.ret.confidence_pct = 100
C28_WitnessSellAtFifty ==
    /\ Succeeded("get_recommendation")
    /\ recResult.score = -2 /\ recResult.ret.recommendation = "SELL SIGNAL"
    /\ recResult.ret.confidence_pct = 50
C28_WitnessNeutral ==
    /\ Succeeded("get_recommendation")
    /\ Abs(recResult.score) = 1 /\ recResult.ret.recommendation = "NEUTRAL"
    /\ recResult.ret.confidence_pct = 25

(* ---------------------------------------------------------------------- *)
(* Resolution of a date between two trading days (SpecExchange)           *)
(* ---------------------------------------------------------------------- *)
\* positions of the last bar before and the first bar after the target
BarBefore == CHOOSE i \in 0..(Len(data) - 1) :
                /\ data[i + 1].day < target.day
                /\ \A j \in 0..(Len(data) - 1) : data[j + 1].day < target.day => j <= i
BarAfter == CHOOSE i \in 0..(Len(data) - 1) :
               /\ data[i + 1].day > target.day
               /\ \A j \in 0..(Len(data) - 1) : data[j + 1].day > target.day => j >= i
\* the target is no trading day and lies as many calendar days after the
\* trading day before it as before the trading day after it
TiedTarget ==
    /\ target.valid /\ target.day \notin TradingDays
    /\ \E i \in 1..Len(data) : data[i].day < target.day
    /\ \E i \in 1..Len(data) : data[i].day > target.day
    /\ target.day - data[BarBefore + 1].day = data[BarAfter + 1].day - target.day
ResolvesEarlier(f) ==
    (Succeeded(f) /\ TiedTarget) => ResultOf(f).target_idx = BarBefore

\* C30: a target date that is no trading day and is equally distant from
\* the trading day before it and the trading day after it is resolved to
\* the earlier of the two, in every variant of the generator.
C30_TieResolvesEarlier == \A f \in Generators : ResolvesEarlier(f)

\* the same on tables stamped at or west of UTC midnight
C30_WestOfUtc == barOffset \in BarOffsets => \A f \in Generators : ResolvesEarlier(f)
\* get_recommendation resolved a tied target to the later trading day
C30_LaterDayReached ==
    /\ Succeeded("get_recommendation") /\ TiedTarget
    /\ recResult.target_idx = BarAfter
\* a tied target resolved to the earlier day, the bars stamped at UTC midnight
C30_EarlierDayReached ==
    /\ Succeeded("generate_signal") /\ TiedTarget /\ barOffset = 0
    /\ sigResult.target_idx = BarBefore

====
